---- MODULE Spec2Model ----
(***************************************************************************)
(* Authorization and content-visibility logic of the community backend:    *)
(* the route handlers of routes/communities.routes.js and                  *)
(* routes/posts.routes.js over the Prisma collections of                   *)
(* prisma/schema.prisma.                                                   *)
(*                                                                         *)
(* Spec     : every handler is one atomic step; resp holds the last        *)
(*            response sent.                                               *)
(* SpecJoin : the join handler split at its awaits, several requests in    *)
(*            flight at once.                                              *)
(* The other specifications split one more handler at its awaits           *)
(* (community deletion, subscribe, reaction toggle, post deletion) or      *)
(* restrict the requests to those a group of properties is about.          *)
(***************************************************************************)
EXTENDS Integers, FiniteSets, Sequences, Bags, TLC

\* ---------------------------------------------------------------- bounds
NumUsers == 2
MaxCommunities == 1
MaxPosts == 2
MaxRequests == 2
MaxComments == 1
MaxUploads == 2
MaxUnlocks == 3

Users == 1..NumUsers
CommunityIds == 1..MaxCommunities
PostIds == 1..MaxPosts
Slots == 1..MaxRequests
CommentIds == 1..MaxComments
\* The ids a client can name in a subscription: those of the communities and
\* one more well-formed id (param('communityId').isMongoId() is the only check).
SubscribableIds == 1..(MaxCommunities + 1)

\* ---------------------------------------------------------------- schema
UserType == {"OG", "CREW"}
RoleInCommunity == {"CREATOR", "MODERATOR", "MEMBER"}

\* The redaction text of the community post listing.
Placeholder == "Este es contenido premium. Suscribete para desbloquearlo."

\* Request bodies: one title and one content value.
Titles == {"title"}
Contents == {"content"}

\* Bodies of PUT /posts/:postId: each field is given or left out (undefined).
undefined == "undefined"
EditTitles == {undefined, "title edited"}
EditContents == {undefined, "content edited"}

\* What findUnique / findFirst give when no record matches (null).
NoCommunity == [createdById |-> 0, esPublica |-> FALSE, logoPublicId |-> 0]
NoMembership ==
  [userId |-> 0, communityId |-> 0, role |-> "NONE", canPublishPremiumContent |-> FALSE]
NoPost ==
  [id |-> 0, title |-> "", content |-> "", esPremium |-> FALSE, authorId |-> 0, communityId |-> 0,
   imagePublicId |-> 0]
NoComment == [id |-> 0, authorId |-> 0, postId |-> 0]
NoReaction == [userId |-> 0, postId |-> 0, type |-> "NONE"]

VARIABLES
  tipo_usuario,            \* User.tipo_usuario, per account
  suscritoAComunidadesIds, \* User.suscritoAComunidadesIds, per account (an array)
  community,               \* Community collection: id -> record, NoCommunity when absent
  communityMembership,     \* CommunityMembership collection: a bag of rows
  post,                    \* Post collection: a set of records
  nextCommunityId,         \* the id the next created community gets
  nextPostId,              \* the id the next created post gets
  resp,                    \* the response to the last request handled
  joinReq,                 \* join requests in flight (SpecJoin)
  comment,                 \* Comment collection: a set of records
  reaction,                \* Reaction collection: a bag of records
  nextCommentId,           \* the id the next created comment gets
  deleteReq,               \* the community deletion in flight (SpecDelete)
  subscribeReq,            \* subscribe requests in flight (SpecSubscribe)
  toggleReq,               \* reaction toggles in flight (SpecReact)
  deletePostReq,           \* post deletions in flight (SpecPostDelete)
  cloudinary               \* Cloudinary: public id -> is the file still stored

vars ==
  <<tipo_usuario, suscritoAComunidadesIds, community, communityMembership, post,
    nextCommunityId, nextPostId, resp, joinReq, comment, reaction, nextCommentId, deleteReq,
    subscribeReq, toggleReq, deletePostReq, cloudinary>>

db == <<tipo_usuario, suscritoAComunidadesIds, community, communityMembership, post,
        nextCommunityId, nextPostId, comment, reaction, nextCommentId>>

\* ---------------------------------------------------------------- queries
\* prisma.community.findUnique({ where: { id } })
findCommunity(c) == IF c \in CommunityIds THEN community[c] ELSE NoCommunity

\* Rows of CommunityMembership for a (userId, communityId) pair.
membershipRows(u, c) ==
  {m \in BagToSet(communityMembership) : m.userId = u /\ m.communityId = c}

\* Number of CommunityMembership rows for a (userId, communityId) pair.
membershipCount(u, c) ==
  LET RECURSIVE sum(_)
      sum(S) == IF S = {} THEN 0
                ELSE LET m == CHOOSE x \in S : TRUE
                     IN CopiesIn(m, communityMembership) + sum(S \ {m})
  IN sum(membershipRows(u, c))

\* prisma.communityMembership.findUnique({ where: { userId_communityId } })
findMembership(u, c) ==
  IF membershipRows(u, c) = {} THEN NoMembership
  ELSE CHOOSE m \in membershipRows(u, c) : TRUE

\* prisma.post.findUnique({ where: { id } })
findPost(p) ==
  IF \E q \in post : q.id = p THEN CHOOSE q \in post : q.id = p ELSE NoPost

\* prisma.comment.findUnique({ where: { id } })
findComment(k) ==
  IF \E x \in comment : x.id = k THEN CHOOSE x \in comment : x.id = k ELSE NoComment

\* prisma.reaction.findFirst({ where: { userId, postId, type } })
findReaction(u, p) ==
  IF \E x \in BagToSet(reaction) : x.userId = u /\ x.postId = p
  THEN CHOOSE x \in BagToSet(reaction) : x.userId = u /\ x.postId = p
  ELSE NoReaction

\* user.suscritoAComunidadesIds.includes(communityId)
includes(u, c) == \E i \in 1..Len(suscritoAComunidadesIds[u]) : suscritoAComunidadesIds[u][i] = c

\* ---------------------------------------------------------------- responses
Response(op, u, c, p, m, arg, status, body) ==
  [op |-> op, userId |-> u, communityId |-> c, postId |-> p, memberUserId |-> m,
   arg |-> arg, status |-> status, body |-> body]

NoResponse == Response("none", 0, 0, 0, 0, "", 0, {})

\* A request slot no join request occupies yet.
IdleRequest ==
  [pc |-> "idle", userId |-> 0, communityId |-> 0, createdById |-> 0, status |-> 0, code |-> ""]

\* A request slot no subscribe or unsubscribe request occupies.
IdleSubscribe == [pc |-> "idle", userId |-> 0, communityId |-> 0, nuevasSuscripciones |-> <<>>]

\* A request slot no reaction toggle occupies.
IdleToggle == [pc |-> "idle", userId |-> 0, postId |-> 0, communityId |-> 0]

\* A request slot no post deletion occupies.
IdleDeletePost ==
  [pc |-> "idle", userId |-> 0, postId |-> 0, authorId |-> 0, communityId |-> 0,
   imagePublicId |-> 0, count |-> 0]

\* No community deletion in flight.
IdleDeletion == [pc |-> "idle", userId |-> 0, communityId |-> 0]

\* ---------------------------------------------------------------- initial state
Init ==
  /\ tipo_usuario = [u \in Users |-> IF u = 1 THEN "OG" ELSE "CREW"]
  /\ suscritoAComunidadesIds = [u \in Users |-> <<>>]
  /\ community = [c \in CommunityIds |-> NoCommunity]
  /\ communityMembership = EmptyBag
  /\ post = {}
  /\ nextCommunityId = 1
  /\ nextPostId = 1
  /\ resp = NoResponse
  /\ joinReq = [s \in Slots |-> IdleRequest]
  /\ comment = {}
  /\ reaction = EmptyBag
  /\ nextCommentId = 1
  /\ deleteReq = IdleDeletion
  /\ subscribeReq = [s \in Slots |-> IdleSubscribe]
  /\ toggleReq = [s \in Slots |-> IdleToggle]
  /\ deletePostReq = [s \in Slots |-> IdleDeletePost]
  /\ cloudinary = <<>>

\* ---------------------------------------------------------------- communities
\* POST /api/communities
CreateCommunity(u, esPublica) ==
  /\ nextCommunityId <= MaxCommunities
  /\ community' = [community EXCEPT ![nextCommunityId] =
                     [createdById |-> u, esPublica |-> esPublica, logoPublicId |-> 0]]
  /\ communityMembership' = communityMembership (+)
       SetToBag({[userId |-> u, communityId |-> nextCommunityId, role |-> "CREATOR",
                  canPublishPremiumContent |-> FALSE]})
  /\ nextCommunityId' = nextCommunityId + 1
  /\ resp' = Response("createCommunity", u, nextCommunityId, 0, 0, "", 201, {})
  /\ UNCHANGED <<tipo_usuario, suscritoAComunidadesIds, post, nextPostId, joinReq,
                    comment, reaction, nextCommentId, deleteReq,
                    subscribeReq, toggleReq, deletePostReq, cloudinary>>

\* Mutant of updateCommunityStatus: any account may update the community.
updateCommunityStatusAnyone(u, c) ==
  IF findCommunity(c) = NoCommunity THEN 404 ELSE 200

\* The checks of PUT /api/communities/:communityId and of the logo endpoint:
\* the community exists, and the requester is the account that created it.
updateCommunityStatus(u, c) ==
  LET comunidadExistente == findCommunity(c)
  IN IF comunidadExistente = NoCommunity THEN 404
     ELSE IF comunidadExistente.createdById # u THEN 403
     ELSE 200

\* PUT /api/communities/:communityId
UpdateCommunity(u, c, esPublica) ==
  LET status == updateCommunityStatus(u, c)
  IN /\ community' = IF status = 200
                     THEN [community EXCEPT ![c].esPublica = esPublica]
                     ELSE community
     /\ resp' = Response("updateCommunity", u, c, 0, 0, "", status, {})
     /\ UNCHANGED <<tipo_usuario, suscritoAComunidadesIds, communityMembership, post,
                    nextCommunityId, nextPostId, joinReq,
                    comment, reaction, nextCommentId, deleteReq,
                    subscribeReq, toggleReq, deletePostReq, cloudinary>>

\* cloudinary.uploader.destroy(publicId): the file is no longer stored.
deleteFromCloudinary(files, publicId) ==
  IF publicId \in DOMAIN files THEN [files EXCEPT ![publicId] = FALSE] ELSE files

\* PATCH /api/communities/:communityId/logo: the old logo is removed, the new one
\* uploaded (ok: the upload succeeds) and the community points to it.
UpdateCommunityLogo(u, c, ok) ==
  LET status == updateCommunityStatus(u, c)
      cleaned == deleteFromCloudinary(cloudinary, findCommunity(c).logoPublicId)
  IN /\ status = 200 => Len(cloudinary) < MaxUploads
     /\ IF status # 200
        THEN /\ resp' = Response("updateCommunityLogo", u, c, 0, 0, "", status, {})
             /\ UNCHANGED <<community, cloudinary>>
        ELSE IF ok
        THEN /\ cloudinary' = Append(cleaned, TRUE)
             /\ community' = [community EXCEPT ![c].logoPublicId = Len(cloudinary) + 1]
             /\ resp' = Response("updateCommunityLogo", u, c, 0, 0, "", 200, {})
        ELSE /\ cloudinary' = cleaned
             /\ resp' = Response("updateCommunityLogo", u, c, 0, 0, "", 500, {})
             /\ UNCHANGED community
     /\ UNCHANGED <<tipo_usuario, suscritoAComunidadesIds, communityMembership, post,
                    nextCommunityId, nextPostId, joinReq,
                    comment, reaction, nextCommentId, deleteReq,
                    subscribeReq, toggleReq, deletePostReq>>

\* ---------------------------------------------------------------- membership
\* Mutant of createViolatesUnique: the collection has no unique index.
createWithoutUniqueIndex(u, c) == FALSE

\* prisma.communityMembership.create: the unique index on (userId, communityId)
\* rejects a second row for the pair (P2002).
createViolatesUnique(u, c) == membershipRows(u, c) # {}

\* Mutant of joinStatus: joining again is answered as a success.
joinStatusIdempotent(u, c) ==
  LET comunidad == findCommunity(c)
      existingMembership == findMembership(u, c)
  IN IF comunidad = NoCommunity THEN 404
     ELSE IF existingMembership # NoMembership THEN 200
     ELSE IF comunidad.createdById = u THEN 200
     ELSE IF createViolatesUnique(u, c) THEN 200
     ELSE 201

\* The decision of POST /api/communities/:communityId/members.
joinStatus(u, c) ==
  LET comunidad == findCommunity(c)
      existingMembership == findMembership(u, c)
  IN IF comunidad = NoCommunity THEN 404
     ELSE IF existingMembership # NoMembership THEN 409
     ELSE IF comunidad.createdById = u THEN 409
     ELSE IF createViolatesUnique(u, c) THEN 409
     ELSE 201

newMemberRow(u, c) ==
  [userId |-> u, communityId |-> c, role |-> "MEMBER", canPublishPremiumContent |-> FALSE]

\* POST /api/communities/:communityId/members
Join(u, c) ==
  LET status == joinStatus(u, c)
  IN /\ communityMembership' = IF status = 201
                               THEN communityMembership (+) SetToBag({newMemberRow(u, c)})
                               ELSE communityMembership
     /\ resp' = Response("join", u, c, 0, 0, "", status, {})
     /\ UNCHANGED <<tipo_usuario, suscritoAComunidadesIds, community, post,
                    nextCommunityId, nextPostId, joinReq,
                    comment, reaction, nextCommentId, deleteReq,
                    subscribeReq, toggleReq, deletePostReq, cloudinary>>

\* Mutant of leaveStatus: the creator may leave like anyone else.
leaveStatusAnyRole(u, c) ==
  LET comunidadExistente == findCommunity(c)
      membership == findMembership(u, c)
  IN IF comunidadExistente = NoCommunity THEN 404
     ELSE IF membership = NoMembership THEN 404
     ELSE 200

\* DELETE /api/communities/:communityId/members
leaveStatus(u, c) ==
  LET comunidadExistente == findCommunity(c)
      membership == findMembership(u, c)
  IN IF comunidadExistente = NoCommunity THEN 404
     ELSE IF membership = NoMembership THEN 404
     ELSE IF membership.role = "CREATOR" THEN 403
     ELSE 200

Leave(u, c) ==
  LET status == leaveStatus(u, c)
  IN /\ communityMembership' = IF status = 200
                               THEN communityMembership (-) SetToBag({findMembership(u, c)})
                               ELSE communityMembership
     /\ resp' = Response("leave", u, c, 0, 0, "", status, {})
     /\ UNCHANGED <<tipo_usuario, suscritoAComunidadesIds, community, post,
                    nextCommunityId, nextPostId, joinReq,
                    comment, reaction, nextCommentId, deleteReq,
                    subscribeReq, toggleReq, deletePostReq, cloudinary>>

\* Mutant of setRoleStatus: the invoker need not be the creator and may be the target.
setRoleStatusAnyInvoker(u, c, memberUserId, newRole) ==
  LET comm == findCommunity(c)
      membershipToUpdate == findMembership(memberUserId, c)
  IN IF newRole \notin {"MODERATOR", "MEMBER"} THEN <<400, FALSE>>
     ELSE IF comm = NoCommunity THEN <<404, FALSE>>
     ELSE IF membershipToUpdate = NoMembership THEN <<404, FALSE>>
     ELSE IF membershipToUpdate.role = "CREATOR" THEN <<400, FALSE>>
     ELSE IF membershipToUpdate.role = newRole THEN <<200, FALSE>>
     ELSE <<200, TRUE>>

\* Mutant of setRoleStatus: asking for the role the target has is answered as a conflict.
setRoleStatusSameRoleConflict(u, c, memberUserId, newRole) ==
  LET comm == findCommunity(c)
      membershipToUpdate == findMembership(memberUserId, c)
  IN IF newRole \notin {"MODERATOR", "MEMBER"} THEN <<400, FALSE>>
     ELSE IF comm = NoCommunity THEN <<404, FALSE>>
     ELSE IF comm.createdById # u THEN <<403, FALSE>>
     ELSE IF memberUserId = u THEN <<400, FALSE>>
     ELSE IF membershipToUpdate = NoMembership THEN <<404, FALSE>>
     ELSE IF membershipToUpdate.role = "CREATOR" THEN <<400, FALSE>>
     ELSE IF membershipToUpdate.role = newRole THEN <<409, FALSE>>
     ELSE <<200, TRUE>>

\* PATCH /api/communities/:communityId/members/:memberUserId/role
\* "unchanged" is the 200 answer of step 7, sent without a write.
setRoleStatus(u, c, memberUserId, newRole) ==
  LET comm == findCommunity(c)
      membershipToUpdate == findMembership(memberUserId, c)
  IN IF newRole \notin {"MODERATOR", "MEMBER"} THEN <<400, FALSE>>
     ELSE IF comm = NoCommunity THEN <<404, FALSE>>
     ELSE IF comm.createdById # u THEN <<403, FALSE>>
     ELSE IF memberUserId = u THEN <<400, FALSE>>
     ELSE IF membershipToUpdate = NoMembership THEN <<404, FALSE>>
     ELSE IF membershipToUpdate.role = "CREATOR" THEN <<400, FALSE>>
     ELSE IF newRole = "CREATOR" THEN <<400, FALSE>>
     ELSE IF membershipToUpdate.role = newRole THEN <<200, FALSE>>
     ELSE <<200, TRUE>>

SetRole(u, c, memberUserId, newRole) ==
  LET st == setRoleStatus(u, c, memberUserId, newRole)
      old == findMembership(memberUserId, c)
  IN /\ communityMembership' =
          IF st[2]
          THEN (communityMembership (-) SetToBag({old}))
                 (+) SetToBag({[old EXCEPT !.role = newRole]})
          ELSE communityMembership
     /\ resp' = Response("setRole", u, c, 0, memberUserId, newRole, st[1], {})
     /\ UNCHANGED <<tipo_usuario, suscritoAComunidadesIds, community, post,
                    nextCommunityId, nextPostId, joinReq,
                    comment, reaction, nextCommentId, deleteReq,
                    subscribeReq, toggleReq, deletePostReq, cloudinary>>

\* Mutant of removeStatus: the invoker need not be the creator and may be the target.
removeStatusAnyInvoker(u, c, memberUserId) ==
  LET comm == findCommunity(c)
      membershipToExpel == findMembership(memberUserId, c)
  IN IF comm = NoCommunity THEN 404
     ELSE IF membershipToExpel = NoMembership THEN 404
     ELSE IF membershipToExpel.role = "CREATOR" THEN 400
     ELSE 200

\* DELETE /api/communities/:communityId/members/:memberUserId
removeStatus(u, c, memberUserId) ==
  LET comm == findCommunity(c)
      membershipToExpel == findMembership(memberUserId, c)
  IN IF comm = NoCommunity THEN 404
     ELSE IF comm.createdById # u THEN 403
     ELSE IF memberUserId = u THEN 400
     ELSE IF membershipToExpel = NoMembership THEN 404
     ELSE IF membershipToExpel.role = "CREATOR" THEN 400
     ELSE 200

Remove(u, c, memberUserId) ==
  LET status == removeStatus(u, c, memberUserId)
  IN /\ communityMembership' =
          IF status = 200
          THEN communityMembership (-) SetToBag({findMembership(memberUserId, c)})
          ELSE communityMembership
     /\ resp' = Response("remove", u, c, 0, memberUserId, "", status, {})
     /\ UNCHANGED <<tipo_usuario, suscritoAComunidadesIds, community, post,
                    nextCommunityId, nextPostId, joinReq,
                    comment, reaction, nextCommentId, deleteReq,
                    subscribeReq, toggleReq, deletePostReq, cloudinary>>

\* Mutant of togglePremiumStatus: the target's role is not looked at.
togglePremiumStatusAnyRole(u, c, memberUserId, newPermissionValue) ==
  LET comm == findCommunity(c)
      membership == findMembership(memberUserId, c)
  IN IF comm = NoCommunity THEN <<404, FALSE>>
     ELSE IF comm.createdById # u THEN <<403, FALSE>>
     ELSE IF memberUserId = u THEN <<400, FALSE>>
     ELSE IF membership = NoMembership THEN <<404, FALSE>>
     ELSE IF membership.canPublishPremiumContent = newPermissionValue THEN <<200, FALSE>>
     ELSE <<200, TRUE>>

\* PATCH /api/communities/:communityId/members/:memberUserId/toggle-premium-permission
togglePremiumStatus(u, c, memberUserId, newPermissionValue) ==
  LET comm == findCommunity(c)
      membership == findMembership(memberUserId, c)
  IN IF comm = NoCommunity THEN <<404, FALSE>>
     ELSE IF comm.createdById # u THEN <<403, FALSE>>
     ELSE IF memberUserId = u THEN <<400, FALSE>>
     ELSE IF membership = NoMembership THEN <<404, FALSE>>
     ELSE IF membership.role # "MODERATOR" THEN <<400, FALSE>>
     ELSE IF membership.canPublishPremiumContent = newPermissionValue THEN <<200, FALSE>>
     ELSE <<200, TRUE>>

TogglePremiumPermission(u, c, memberUserId, newPermissionValue) ==
  LET st == togglePremiumStatus(u, c, memberUserId, newPermissionValue)
      old == findMembership(memberUserId, c)
  IN /\ communityMembership' =
          IF st[2]
          THEN (communityMembership (-) SetToBag({old}))
                 (+) SetToBag({[old EXCEPT !.canPublishPremiumContent = newPermissionValue]})
          ELSE communityMembership
     /\ resp' = Response("togglePremiumPermission", u, c, 0, memberUserId,
                         IF newPermissionValue THEN "true" ELSE "false", st[1], {})
     /\ UNCHANGED <<tipo_usuario, suscritoAComunidadesIds, community, post,
                    nextCommunityId, nextPostId, joinReq,
                    comment, reaction, nextCommentId, deleteReq,
                    subscribeReq, toggleReq, deletePostReq, cloudinary>>

\* ---------------------------------------------------------------- subscriptions
\* POST /api/communities/:communityId/suscripcion
\* The handler reads no Community record: c is any well-formed id.
Subscribe(u, c) ==
  /\ suscritoAComunidadesIds' =
       IF includes(u, c) THEN suscritoAComunidadesIds
       ELSE [suscritoAComunidadesIds EXCEPT ![u] = Append(@, c)]
  /\ resp' = Response("subscribe", u, c, 0, 0, "", 200, {})
  /\ UNCHANGED <<tipo_usuario, community, communityMembership, post,
                 nextCommunityId, nextPostId, joinReq,
                    comment, reaction, nextCommentId, deleteReq,
                    subscribeReq, toggleReq, deletePostReq, cloudinary>>

\* Mutant of nuevasSuscripciones: the unsubscription drops every unlock.
nuevasSuscripcionesNone(u, c) == <<>>

\* user.suscritoAComunidadesIds.filter(id => id !== communityId)
nuevasSuscripciones(u, c) == SelectSeq(suscritoAComunidadesIds[u], LAMBDA id : id # c)

\* DELETE /api/communities/:communityId/suscripcion
Unsubscribe(u, c) ==
  /\ suscritoAComunidadesIds' =
       IF ~includes(u, c) THEN suscritoAComunidadesIds
       ELSE [suscritoAComunidadesIds EXCEPT ![u] = nuevasSuscripciones(u, c)]
  /\ resp' = Response("unsubscribe", u, c, 0, 0, "", 200, {})
  /\ UNCHANGED <<tipo_usuario, community, communityMembership, post,
                 nextCommunityId, nextPostId, joinReq,
                    comment, reaction, nextCommentId, deleteReq,
                    subscribeReq, toggleReq, deletePostReq, cloudinary>>

\* POST /api/communities/:communityId/suscripcion await by await.
\* The subscribe requests of account u that are about to push.
pendingPushes(u) ==
  Cardinality({s \in Slots : subscribeReq[s].pc = "push" /\ subscribeReq[s].userId = u})

\* await prisma.user.findUnique({ select: { suscritoAComunidadesIds } }), then
\* the 200 answer when the id is already in the array
SubscribeFind(s, u, c) ==
  /\ subscribeReq[s].pc = "idle"
  /\ Len(suscritoAComunidadesIds[u]) + pendingPushes(u) < MaxUnlocks
  /\ IF includes(u, c)
     THEN /\ resp' = Response("subscribe", u, c, 0, 0, "", 200, {})
          /\ UNCHANGED subscribeReq
     ELSE /\ subscribeReq' = [subscribeReq EXCEPT ![s] =
                                [pc |-> "push", userId |-> u, communityId |-> c,
                                 nuevasSuscripciones |-> <<>>]]
          /\ UNCHANGED resp
  /\ UNCHANGED <<db, joinReq, deleteReq, toggleReq, deletePostReq, cloudinary>>

\* Mutant of catchSendsResponse: the catch block is empty.
catchIsEmpty == FALSE

\* The catch block of a handler answers 500.
catchSendsResponse == TRUE

\* What a rejected persistence call leads to: the 500 answer of the catch
\* block, the slot free again; with an empty catch block the request stays
\* without an answer.
caught(req, s, idle, op, u, c) ==
  IF catchSendsResponse
  THEN /\ resp' = Response(op, u, c, 0, 0, "", 500, {})
       /\ req' = [req EXCEPT ![s] = idle]
  ELSE /\ req' = [req EXCEPT ![s].pc = "unanswered"]
       /\ UNCHANGED resp

\* await prisma.user.update({ data: { suscritoAComunidadesIds: { push } } });
\* ~ok: the call rejects and the catch block answers
SubscribePush(s, ok) ==
  LET u == subscribeReq[s].userId
      c == subscribeReq[s].communityId
  IN /\ subscribeReq[s].pc = "push"
     /\ IF ok
        THEN /\ suscritoAComunidadesIds' =
                  [suscritoAComunidadesIds EXCEPT ![u] = Append(@, c)]
             /\ subscribeReq' = [subscribeReq EXCEPT ![s] = IdleSubscribe]
             /\ resp' = Response("subscribe", u, c, 0, 0, "", 200, {})
        ELSE /\ caught(subscribeReq, s, IdleSubscribe, "subscribe", u, c)
             /\ UNCHANGED suscritoAComunidadesIds
     /\ UNCHANGED <<tipo_usuario, community, communityMembership, post,
                    nextCommunityId, nextPostId, joinReq,
                    comment, reaction, nextCommentId, deleteReq,
                    toggleReq, deletePostReq, cloudinary>>

\* DELETE /api/communities/:communityId/suscripcion await by await.
\* await prisma.user.findUnique, the 200 answer when the id is not in the
\* array, and the filter of the array that was read
UnsubscribeFind(s, u, c) ==
  /\ subscribeReq[s].pc = "idle"
  /\ IF ~includes(u, c)
     THEN /\ resp' = Response("unsubscribe", u, c, 0, 0, "", 200, {})
          /\ UNCHANGED subscribeReq
     ELSE /\ subscribeReq' = [subscribeReq EXCEPT ![s] =
                                [pc |-> "set", userId |-> u, communityId |-> c,
                                 nuevasSuscripciones |-> nuevasSuscripciones(u, c)]]
          /\ UNCHANGED resp
  /\ UNCHANGED <<db, joinReq, deleteReq, toggleReq, deletePostReq, cloudinary>>

\* await prisma.user.update({ data: { suscritoAComunidadesIds: { set } } })
UnsubscribeSet(s, ok) ==
  LET r == subscribeReq[s]
  IN /\ r.pc = "set"
     /\ IF ok
        THEN /\ suscritoAComunidadesIds' =
                  [suscritoAComunidadesIds EXCEPT ![r.userId] = r.nuevasSuscripciones]
             /\ subscribeReq' = [subscribeReq EXCEPT ![s] = IdleSubscribe]
             /\ resp' = Response("unsubscribe", r.userId, r.communityId, 0, 0, "", 200, {})
        ELSE /\ caught(subscribeReq, s, IdleSubscribe, "unsubscribe", r.userId, r.communityId)
             /\ UNCHANGED suscritoAComunidadesIds
     /\ UNCHANGED <<tipo_usuario, community, communityMembership, post,
                    nextCommunityId, nextPostId, joinReq,
                    comment, reaction, nextCommentId, deleteReq,
                    toggleReq, deletePostReq, cloudinary>>

\* ---------------------------------------------------------------- posts
\* POST /api/comunidades/:communityId/posts, the permission part.
isCreator(u, c) == findCommunity(c).createdById = u

isModerator(u, c) == findMembership(u, c).role = "MODERATOR"

\* Mutant of canMarkAsPremium: every Moderator may, whatever the permission flag.
canMarkAsPremiumAnyModerator(u, c) == isCreator(u, c) \/ isModerator(u, c)

canMarkAsPremium(u, c) ==
  isCreator(u, c) \/ (isModerator(u, c) /\ findMembership(u, c).canPublishPremiumContent = TRUE)

\* Mutant of createPostStatus: any membership is taken for a Moderator's.
createPostStatusAnyMember(u, c, intendsToPostPremium) ==
  IF findCommunity(c) = NoCommunity THEN 404
  ELSE IF ~isCreator(u, c) /\ findMembership(u, c) = NoMembership THEN 403
  ELSE IF intendsToPostPremium /\ ~canMarkAsPremium(u, c) THEN 403
  ELSE 201

createPostStatus(u, c, intendsToPostPremium) ==
  IF findCommunity(c) = NoCommunity THEN 404
  ELSE IF ~isCreator(u, c) /\ ~isModerator(u, c) THEN 403
  ELSE IF intendsToPostPremium /\ ~canMarkAsPremium(u, c) THEN 403
  ELSE 201

finalIsPremium(u, c, intendsToPostPremium) ==
  canMarkAsPremium(u, c) /\ intendsToPostPremium

\* POST /api/comunidades/:communityId/posts
CreatePost(u, c, title, content, intendsToPostPremium) ==
  LET status == createPostStatus(u, c, intendsToPostPremium)
      nuevoPost == [id |-> nextPostId, title |-> title, content |-> content,
                    esPremium |-> finalIsPremium(u, c, intendsToPostPremium),
                    authorId |-> u, communityId |-> c, imagePublicId |-> 0]
  IN /\ status = 201 => nextPostId <= MaxPosts
     /\ post' = IF status = 201 THEN post \cup {nuevoPost} ELSE post
     /\ nextPostId' = IF status = 201 THEN nextPostId + 1 ELSE nextPostId
     /\ resp' = Response("createPost", u, c, IF status = 201 THEN nextPostId ELSE 0, 0,
                         IF intendsToPostPremium THEN "true" ELSE "false", status, {})
     /\ UNCHANGED <<tipo_usuario, suscritoAComunidadesIds, community, communityMembership,
                    nextCommunityId, joinReq,
                    comment, reaction, nextCommentId, deleteReq,
                    subscribeReq, toggleReq, deletePostReq, cloudinary>>

\* POST /api/comunidades/:communityId/posts with an image file: after the
\* permission checks the file is uploaded (ok: the upload succeeds, else 500)
\* and the post is created with the public id of the file.
CreatePostWithImage(u, c, title, content, intendsToPostPremium, ok) ==
  LET checks == createPostStatus(u, c, intendsToPostPremium)
      status == IF checks = 201 /\ ~ok THEN 500 ELSE checks
      nuevoPost == [id |-> nextPostId, title |-> title, content |-> content,
                    esPremium |-> finalIsPremium(u, c, intendsToPostPremium),
                    authorId |-> u, communityId |-> c,
                    imagePublicId |-> Len(cloudinary) + 1]
  IN /\ status = 201 => (nextPostId <= MaxPosts /\ Len(cloudinary) < MaxUploads)
     /\ post' = IF status = 201 THEN post \cup {nuevoPost} ELSE post
     /\ nextPostId' = IF status = 201 THEN nextPostId + 1 ELSE nextPostId
     /\ cloudinary' = IF status = 201 THEN Append(cloudinary, TRUE) ELSE cloudinary
     /\ resp' = Response("createPost", u, c, IF status = 201 THEN nextPostId ELSE 0, 0,
                         IF intendsToPostPremium THEN "true" ELSE "false", status, {})
     /\ UNCHANGED <<tipo_usuario, suscritoAComunidadesIds, community, communityMembership,
                    nextCommunityId, joinReq,
                    comment, reaction, nextCommentId, deleteReq,
                    subscribeReq, toggleReq, deletePostReq>>

\* GET /api/comunidades/:communityId/posts, the per-post map of processedPosts.
userHasPremiumAccess(u, c) == isCreator(u, c) \/ isModerator(u, c) \/ includes(u, c)

\* Mutant of processedPost: the listing returns every post as stored.
processedPostUnredacted(u, c, q) == q

processedPost(u, c, q) ==
  IF q.esPremium /\ ~userHasPremiumAccess(u, c)
  THEN [q EXCEPT !.content = Placeholder]
  ELSE q

\* Mutant of listPostsStatus: the gate asks for a membership in public communities too.
listPostsStatusMembersOnly(u, c) ==
  LET comm == findCommunity(c)
      isMember == findMembership(u, c) # NoMembership
  IN IF comm = NoCommunity THEN 404
     ELSE IF ~isMember THEN 403
     ELSE 200

\* Mutant of listPostsStatus: a premium unlock opens a private community too.
listPostsStatusSubscribersToo(u, c) ==
  LET comm == findCommunity(c)
      isMember == findMembership(u, c) # NoMembership
  IN IF comm = NoCommunity THEN 404
     ELSE IF ~comm.esPublica /\ ~isMember /\ ~includes(u, c) THEN 403
     ELSE 200

listPostsStatus(u, c) ==
  LET comm == findCommunity(c)
      isMember == findMembership(u, c) # NoMembership
  IN IF comm = NoCommunity THEN 404
     ELSE IF ~comm.esPublica /\ ~isMember THEN 403
     ELSE 200

listPostsBody(u, c) ==
  IF listPostsStatus(u, c) = 200
  THEN {processedPost(u, c, q) : q \in {x \in post : x.communityId = c}}
  ELSE {}

\* GET /api/comunidades/:communityId/posts
ListPosts(u, c) ==
  /\ resp' = Response("listPosts", u, c, 0, 0, "", listPostsStatus(u, c), listPostsBody(u, c))
  /\ UNCHANGED db
  /\ UNCHANGED <<joinReq, deleteReq,
                    subscribeReq, toggleReq, deletePostReq, cloudinary>>

\* Mutant of getPostStatus: only the author and subscribers pass the premium check.
getPostStatusAuthorOrSubscribed(u, p) ==
  LET q == findPost(p)
      isAuthor == q.authorId = u
      isSubscribed == includes(u, q.communityId)
  IN IF q = NoPost THEN 404
     ELSE IF q.esPremium /\ ~isAuthor /\ ~isSubscribed THEN 403
     ELSE 200

\* GET /api/posts/:postId, the premium check.
getPostStatus(u, p) ==
  LET q == findPost(p)
      isAuthor == q.authorId = u
      isCommunityCreator == findCommunity(q.communityId).createdById = u
      isSubscribed == includes(u, q.communityId)
  IN IF q = NoPost THEN 404
     ELSE IF q.esPremium /\ ~isAuthor /\ ~isCommunityCreator
             /\ ~isModerator(u, q.communityId) /\ ~isSubscribed
     THEN 403
     ELSE 200

\* GET /api/posts/:postId
GetPost(u, p) ==
  /\ resp' = Response("getPost", u, findPost(p).communityId, p, 0, "", getPostStatus(u, p),
                      IF getPostStatus(u, p) = 200 THEN {findPost(p)} ELSE {})
  /\ UNCHANGED db
  /\ UNCHANGED <<joinReq, deleteReq,
                    subscribeReq, toggleReq, deletePostReq, cloudinary>>

\* ---------------------------------------------------------------- feed, profile, search
\* GET /api/me/feed, the where condition: posts of the communities the user
\* is a member of that are not premium, or premium in a community the user
\* has unlocked or created.
whereCondition(u, q) ==
  /\ findMembership(u, q.communityId) # NoMembership
  /\ \/ ~q.esPremium
     \/ q.esPremium /\ includes(u, q.communityId)
     \/ q.esPremium /\ findCommunity(q.communityId).createdById = u

\* GET /api/me/feed
GetFeed(u) ==
  /\ resp' = Response("getFeed", u, 0, 0, 0, "", 200, {q \in post : whereCondition(u, q)})
  /\ UNCHANGED db
  /\ UNCHANGED <<joinReq, deleteReq,
                    subscribeReq, toggleReq, deletePostReq, cloudinary>>

\* GET /api/users/:userId/posts, the query: every post of the author, with
\* its content. The route has no authentication; u is whoever asks.
userPosts(u, userId) == {q \in post : q.authorId = userId}

\* GET /api/users/:userId/posts
GetUserPosts(u, userId) ==
  /\ resp' = Response("getUserPosts", u, 0, 0, userId, "", 200, userPosts(u, userId))
  /\ UNCHANGED db
  /\ UNCHANGED <<joinReq, deleteReq,
                    subscribeReq, toggleReq, deletePostReq, cloudinary>>

\* GET /api/search: the posts of public communities that match, of which
\* only the id and the title are selected.
Search(u) ==
  /\ resp' = Response("search", u, 0, 0, 0, "", 200,
                      {[id |-> q.id, title |-> q.title] :
                         q \in {x \in post : findCommunity(x.communityId).esPublica}})
  /\ UNCHANGED db
  /\ UNCHANGED <<joinReq, deleteReq,
                    subscribeReq, toggleReq, deletePostReq, cloudinary>>

\* ---------------------------------------------------------------- post edit and delete
\* Mutant of editPostStatus: the community's creator may edit any post of it.
editPostStatusCreatorToo(u, p, title, content) ==
  LET postExistente == findPost(p)
  IN IF title = undefined /\ content = undefined THEN 400
     ELSE IF postExistente = NoPost THEN 404
     ELSE IF postExistente.authorId # u
             /\ findCommunity(postExistente.communityId).createdById # u THEN 403
     ELSE 200

\* PUT /api/posts/:postId
editPostStatus(u, p, title, content) ==
  LET postExistente == findPost(p)
  IN IF title = undefined /\ content = undefined THEN 400
     ELSE IF postExistente = NoPost THEN 404
     ELSE IF postExistente.authorId # u THEN 403
     ELSE 200

\* prisma.post.update with dataToUpdate: only the fields the body gave.
dataToUpdate(q, title, content) ==
  [q EXCEPT !.title = IF title # undefined THEN title ELSE @,
            !.content = IF content # undefined THEN content ELSE @]

EditPost(u, p, title, content) ==
  LET status == editPostStatus(u, p, title, content)
      q == findPost(p)
  IN /\ post' = IF status = 200
                THEN (post \ {q}) \cup {dataToUpdate(q, title, content)}
                ELSE post
     /\ resp' = Response("editPost", u, q.communityId, p, 0, "", status,
                         {[title |-> title, content |-> content]})
     /\ UNCHANGED <<tipo_usuario, suscritoAComunidadesIds, community, communityMembership,
                    nextCommunityId, nextPostId, joinReq,
                    comment, reaction, nextCommentId, deleteReq,
                    subscribeReq, toggleReq, deletePostReq, cloudinary>>

\* Mutant of commentsWithoutPosts: deleting a post does not cascade to its comments.
commentsWithoutCascade(ps) == comment

\* onDelete: Cascade of Comment.post and Reaction.post: what is left of the two
\* collections once the posts with the given ids are deleted.
commentsWithoutPosts(ps) == {k \in comment : k.postId \notin ps}

reactionsWithoutPosts(ps) ==
  [r \in {x \in BagToSet(reaction) : x.postId \notin ps} |-> reaction[r]]

\* DELETE /api/posts/:postId, the permission part.
puedeBorrar(u, q) ==
  LET membership == findMembership(u, q.communityId)
  IN \/ q.authorId = u
     \/ membership # NoMembership /\ membership.role \in {"CREATOR", "MODERATOR"}

deletePostStatus(u, p) ==
  LET postToDelete == findPost(p)
  IN IF postToDelete = NoPost THEN 404
     ELSE IF ~puedeBorrar(u, postToDelete) THEN 403
     ELSE 200

\* DELETE /api/posts/:postId
DeletePost(u, p) ==
  LET status == deletePostStatus(u, p)
      q == findPost(p)
  IN /\ post' = IF status = 200 THEN post \ {q} ELSE post
     /\ comment' = IF status = 200 THEN {k \in comment : k.postId # p} ELSE comment
     /\ reaction' = IF status = 200 THEN reactionsWithoutPosts({p}) ELSE reaction
     /\ cloudinary' = IF status = 200 THEN deleteFromCloudinary(cloudinary, q.imagePublicId)
                      ELSE cloudinary
     /\ resp' = Response("deletePost", u, q.communityId, p, 0, "", status,
                         IF q = NoPost THEN {} ELSE {q})
     /\ UNCHANGED <<tipo_usuario, suscritoAComunidadesIds, community, communityMembership,
                    nextCommunityId, nextPostId, joinReq, nextCommentId, deleteReq,
                    subscribeReq, toggleReq, deletePostReq>>

\* DELETE /api/posts/:postId await by await, several requests in flight.
\* The await that follows the permission check: the removal of the image when
\* the post has one, else the deletion of the comments.
afterPuedeBorrar(imagePublicId) == IF imagePublicId # 0 THEN "cloudinary" ELSE "comments"

\* await prisma.post.findUnique, the 404 answer, and puedeBorrar for the author
DeletePostFind(s, u, p) ==
  LET postToDelete == findPost(p)
  IN /\ deletePostReq[s].pc = "idle"
     /\ IF postToDelete = NoPost
        THEN /\ resp' = Response("deletePost", u, 0, p, 0, "", 404, {})
             /\ UNCHANGED deletePostReq
        ELSE /\ deletePostReq' = [deletePostReq EXCEPT ![s] =
                  [pc |-> IF postToDelete.authorId = u
                          THEN afterPuedeBorrar(postToDelete.imagePublicId)
                          ELSE "findMembership",
                   userId |-> u, postId |-> p, authorId |-> postToDelete.authorId,
                   communityId |-> postToDelete.communityId,
                   imagePublicId |-> postToDelete.imagePublicId, count |-> 0]]
             /\ UNCHANGED resp
     /\ UNCHANGED <<db, joinReq, deleteReq, subscribeReq, toggleReq, cloudinary>>

\* await prisma.communityMembership.findUnique for a requester who is not the
\* author, then the 403 answer
DeletePostFindMembership(s) ==
  LET r == deletePostReq[s]
      membership == findMembership(r.userId, r.communityId)
  IN /\ r.pc = "findMembership"
     /\ IF membership # NoMembership /\ membership.role \in {"CREATOR", "MODERATOR"}
        THEN /\ deletePostReq' = [deletePostReq EXCEPT ![s].pc =
                                    afterPuedeBorrar(r.imagePublicId)]
             /\ UNCHANGED resp
        ELSE /\ resp' = Response("deletePost", r.userId, r.communityId, r.postId, 0, "",
                                 403, {})
             /\ deletePostReq' = [deletePostReq EXCEPT ![s] = IdleDeletePost]
     /\ UNCHANGED <<db, joinReq, deleteReq, subscribeReq, toggleReq, cloudinary>>

\* await deleteFromCloudinary(postToDelete.imagePublicId); a failure (~ok) is
\* logged and the handler goes on
DeletePostCloudinary(s, ok) ==
  LET r == deletePostReq[s]
  IN /\ r.pc = "cloudinary"
     /\ cloudinary' = IF ok THEN deleteFromCloudinary(cloudinary, r.imagePublicId)
                      ELSE cloudinary
     /\ deletePostReq' = [deletePostReq EXCEPT ![s].pc = "comments"]
     /\ UNCHANGED <<db, resp, joinReq, deleteReq, subscribeReq, toggleReq>>

\* await prisma.comment.deleteMany({ where: { postId } }), which gives the count
\* of the comments it deleted; a failure is answered 500
DeletePostComments(s, ok) ==
  LET r == deletePostReq[s]
  IN /\ r.pc = "comments"
     /\ IF ok
        THEN /\ comment' = {k \in comment : k.postId # r.postId}
             /\ deletePostReq' = [deletePostReq EXCEPT ![s] =
                  [r EXCEPT !.pc = "post",
                            !.count = Cardinality({k \in comment : k.postId = r.postId})]]
             /\ UNCHANGED resp
        ELSE /\ resp' = Response("deletePost", r.userId, r.communityId, r.postId, 0, "",
                                 500, {})
             /\ deletePostReq' = [deletePostReq EXCEPT ![s] = IdleDeletePost]
             /\ UNCHANGED comment
     /\ UNCHANGED <<tipo_usuario, suscritoAComunidadesIds, community, communityMembership,
                    post, nextCommunityId, nextPostId, joinReq, reaction, nextCommentId,
                    deleteReq, subscribeReq, toggleReq, cloudinary>>

\* await prisma.post.delete({ where: { id } }) with the cascades of Comment.post
\* and Reaction.post: 200, P2025 and 404 when the post is gone by now, or 500
DeletePostRecord(s, ok) ==
  LET r == deletePostReq[s]
      q == findPost(r.postId)
      status == IF ~ok THEN 500 ELSE IF q = NoPost THEN 404 ELSE 200
  IN /\ r.pc = "post"
     /\ post' = IF status = 200 THEN post \ {q} ELSE post
     /\ comment' = IF status = 200 THEN commentsWithoutPosts({r.postId}) ELSE comment
     /\ reaction' = IF status = 200 THEN reactionsWithoutPosts({r.postId}) ELSE reaction
     /\ deletePostReq' = [deletePostReq EXCEPT ![s] = IdleDeletePost]
     /\ resp' = Response("deletePost", r.userId, r.communityId, r.postId, 0, "", status, {})
     /\ UNCHANGED <<tipo_usuario, suscritoAComunidadesIds, community, communityMembership,
                    nextCommunityId, nextPostId, joinReq, nextCommentId,
                    deleteReq, subscribeReq, toggleReq, cloudinary>>

\* ---------------------------------------------------------------- comments
\* Mutant of createCommentStatus: no membership is asked for.
createCommentStatusAnyone(u, p) ==
  IF findPost(p) = NoPost THEN 404 ELSE 201

\* POST /api/posts/:postId/comments
createCommentStatus(u, p) ==
  LET q == findPost(p)
      membership == findMembership(u, q.communityId)
  IN IF q = NoPost THEN 404
     ELSE IF membership = NoMembership THEN 403
     ELSE 201

CreateComment(u, p) ==
  LET status == createCommentStatus(u, p)
      nuevoComentario == [id |-> nextCommentId, authorId |-> u, postId |-> p]
  IN /\ status = 201 => nextCommentId <= MaxComments
     /\ comment' = IF status = 201 THEN comment \cup {nuevoComentario} ELSE comment
     /\ nextCommentId' = IF status = 201 THEN nextCommentId + 1 ELSE nextCommentId
     /\ resp' = Response("createComment", u, findPost(p).communityId, p, 0, "", status,
                         IF status = 201 THEN {nuevoComentario} ELSE {})
     /\ UNCHANGED <<tipo_usuario, suscritoAComunidadesIds, community, communityMembership,
                    post, nextCommunityId, nextPostId, joinReq, reaction, deleteReq,
                    subscribeReq, toggleReq, deletePostReq, cloudinary>>

\* DELETE /api/comments/:commentId
deleteCommentStatus(u, k) ==
  LET comentario == findComment(k)
      communityIdDelPost == findPost(comentario.postId).communityId
      membership == findMembership(u, communityIdDelPost)
  IN IF comentario = NoComment THEN 404
     ELSE IF findPost(comentario.postId) = NoPost THEN 500
     ELSE IF comentario.authorId = u THEN 200
     ELSE IF membership # NoMembership /\ membership.role \in {"CREATOR", "MODERATOR"} THEN 200
     ELSE 403

DeleteComment(u, k) ==
  LET status == deleteCommentStatus(u, k)
      comentario == findComment(k)
  IN /\ comment' = IF status = 200 THEN comment \ {comentario} ELSE comment
     /\ resp' = Response("deleteComment", u, findPost(comentario.postId).communityId,
                         comentario.postId, 0, "", status,
                         IF comentario = NoComment THEN {} ELSE {comentario})
     /\ UNCHANGED <<tipo_usuario, suscritoAComunidadesIds, community, communityMembership,
                    post, nextCommunityId, nextPostId, joinReq, reaction, nextCommentId,
                    deleteReq,
                    subscribeReq, toggleReq, deletePostReq, cloudinary>>

\* ---------------------------------------------------------------- reactions
\* POST /api/posts/:postId/react: 201 creates the LIKE, 200 removes it.
toggleReactionStatus(u, p) ==
  LET q == findPost(p)
      membership == findMembership(u, q.communityId)
      existingReaction == findReaction(u, p)
  IN IF q = NoPost THEN 404
     ELSE IF membership = NoMembership THEN 403
     ELSE IF existingReaction # NoReaction THEN 200
     ELSE 201

ToggleReaction(u, p) ==
  LET status == toggleReactionStatus(u, p)
      newReaction == [userId |-> u, postId |-> p, type |-> "LIKE"]
  IN /\ reaction' = IF status = 200 THEN reaction (-) SetToBag({findReaction(u, p)})
                    ELSE IF status = 201 THEN reaction (+) SetToBag({newReaction})
                    ELSE reaction
     /\ resp' = Response("toggleReaction", u, findPost(p).communityId, p, 0, "", status, {})
     /\ UNCHANGED <<tipo_usuario, suscritoAComunidadesIds, community, communityMembership,
                    post, nextCommunityId, nextPostId, joinReq, comment, nextCommentId,
                    deleteReq,
                    subscribeReq, toggleReq, deletePostReq, cloudinary>>

\* POST /api/posts/:postId/react await by await, several requests in flight.
\* Mutant of reactionViolatesUnique: the collection has no unique index.
reactionWithoutUniqueIndex(u, p) == FALSE

\* @@unique([userId, postId]) of Reaction: a create for a pair that has a record
\* is rejected (P2002).
reactionViolatesUnique(u, p) ==
  \E x \in BagToSet(reaction) : x.userId = u /\ x.postId = p

\* await prisma.post.findUnique, then the 404 answer
ToggleFindPost(s, u, p) ==
  LET q == findPost(p)
  IN /\ toggleReq[s].pc = "idle"
     /\ IF q = NoPost
        THEN /\ resp' = Response("toggleReaction", u, 0, p, 0, "", 404, {})
             /\ UNCHANGED toggleReq
        ELSE /\ toggleReq' = [toggleReq EXCEPT ![s] =
                  [pc |-> "findMembership", userId |-> u, postId |-> p,
                   communityId |-> q.communityId]]
             /\ UNCHANGED resp
     /\ UNCHANGED <<db, joinReq, deleteReq, subscribeReq, deletePostReq, cloudinary>>

\* await prisma.communityMembership.findUnique, then the 403 answer
ToggleFindMembership(s) ==
  LET r == toggleReq[s]
  IN /\ r.pc = "findMembership"
     /\ IF findMembership(r.userId, r.communityId) = NoMembership
        THEN /\ resp' = Response("toggleReaction", r.userId, r.communityId, r.postId, 0, "",
                                 403, {})
             /\ toggleReq' = [toggleReq EXCEPT ![s] = IdleToggle]
        ELSE /\ toggleReq' = [toggleReq EXCEPT ![s].pc = "findFirst"]
             /\ UNCHANGED resp
     /\ UNCHANGED <<db, joinReq, deleteReq, subscribeReq, deletePostReq, cloudinary>>

\* const existingReaction = await prisma.reaction.findFirst(...)
ToggleFindFirst(s) ==
  LET r == toggleReq[s]
  IN /\ r.pc = "findFirst"
     /\ toggleReq' = [toggleReq EXCEPT ![s].pc =
          IF findReaction(r.userId, r.postId) # NoReaction THEN "delete" ELSE "create"]
     /\ UNCHANGED <<db, resp, joinReq, deleteReq, subscribeReq, deletePostReq, cloudinary>>

\* await prisma.reaction.delete({ where: { id: existingReaction.id } }): 200, or
\* P2025 and 404 when the record is gone by now
ToggleDelete(s) ==
  LET r == toggleReq[s]
      existingReaction == findReaction(r.userId, r.postId)
      status == IF existingReaction = NoReaction THEN 404 ELSE 200
  IN /\ r.pc = "delete"
     /\ reaction' = IF status = 200 THEN reaction (-) SetToBag({existingReaction})
                    ELSE reaction
     /\ toggleReq' = [toggleReq EXCEPT ![s] = IdleToggle]
     /\ resp' = Response("toggleReaction", r.userId, r.communityId, r.postId, 0, "", status, {})
     /\ UNCHANGED <<tipo_usuario, suscritoAComunidadesIds, community, communityMembership,
                    post, nextCommunityId, nextPostId, joinReq, comment, nextCommentId,
                    deleteReq, subscribeReq, deletePostReq, cloudinary>>

\* await prisma.reaction.create(...): 201, or P2002 and 409 when the pair has a
\* record by now
ToggleCreate(s) ==
  LET r == toggleReq[s]
      newReaction == [userId |-> r.userId, postId |-> r.postId, type |-> "LIKE"]
      status == IF reactionViolatesUnique(r.userId, r.postId) THEN 409 ELSE 201
  IN /\ r.pc = "create"
     /\ reaction' = IF status = 201 THEN reaction (+) SetToBag({newReaction}) ELSE reaction
     /\ toggleReq' = [toggleReq EXCEPT ![s] = IdleToggle]
     /\ resp' = Response("toggleReaction", r.userId, r.communityId, r.postId, 0, "", status, {})
     /\ UNCHANGED <<tipo_usuario, suscritoAComunidadesIds, community, communityMembership,
                    post, nextCommunityId, nextPostId, joinReq, comment, nextCommentId,
                    deleteReq, subscribeReq, deletePostReq, cloudinary>>

\* ---------------------------------------------------------------- join, await by await
\* POST /api/communities/:communityId/members with several requests in flight:
\* each step is the code up to the next await.
\* await prisma.community.findUnique
JoinFindCommunity(s, u, c) ==
  /\ joinReq[s].pc = "idle"
  /\ joinReq' = [joinReq EXCEPT ![s] =
       IF findCommunity(c) = NoCommunity
       THEN [IdleRequest EXCEPT !.pc = "done", !.userId = u, !.communityId = c, !.status = 404]
       ELSE [IdleRequest EXCEPT !.pc = "findMembership", !.userId = u, !.communityId = c,
                                !.createdById = findCommunity(c).createdById]]
  /\ UNCHANGED <<db, resp, deleteReq,
                    subscribeReq, toggleReq, deletePostReq, cloudinary>>

\* await prisma.communityMembership.findUnique, then the two 409 answers
JoinFindMembership(s) ==
  LET r == joinReq[s]
  IN /\ r.pc = "findMembership"
     /\ joinReq' = [joinReq EXCEPT ![s] =
          IF findMembership(r.userId, r.communityId) # NoMembership
          THEN [r EXCEPT !.pc = "done", !.status = 409]
          ELSE IF r.createdById = r.userId
          THEN [r EXCEPT !.pc = "done", !.status = 409]
          ELSE [r EXCEPT !.pc = "create"]]
     /\ UNCHANGED <<db, resp, deleteReq,
                    subscribeReq, toggleReq, deletePostReq, cloudinary>>

\* await prisma.communityMembership.create, P2002 caught as 409
JoinCreateMembership(s) ==
  LET r == joinReq[s]
  IN /\ r.pc = "create"
     /\ IF createViolatesUnique(r.userId, r.communityId)
        THEN /\ joinReq' = [joinReq EXCEPT ![s] =
                              [r EXCEPT !.pc = "done", !.status = 409, !.code = "P2002"]]
             /\ UNCHANGED communityMembership
        ELSE /\ joinReq' = [joinReq EXCEPT ![s] = [r EXCEPT !.pc = "done", !.status = 201]]
             /\ communityMembership' =
                  communityMembership (+) SetToBag({newMemberRow(r.userId, r.communityId)})
     /\ UNCHANGED <<tipo_usuario, suscritoAComunidadesIds, community, post,
                    nextCommunityId, nextPostId, resp,
                    comment, reaction, nextCommentId, deleteReq,
                    subscribeReq, toggleReq, deletePostReq, cloudinary>>

\* ---------------------------------------------------------------- community deletion
\* DELETE /api/communities/:communityId (the handler registered first): each
\* step is the code up to the next await. ok = FALSE is a persistence call that
\* throws and writes nothing; the catch block answers 500.
postIdsOf(c) == {q.id : q \in {x \in post : x.communityId = c}}

\* prisma.communityMembership.deleteMany({ where: { communityId } })
membershipsWithoutCommunity(c) ==
  [m \in {x \in BagToSet(communityMembership) : x.communityId # c} |-> communityMembership[m]]

\* await prisma.community.findUnique, then the 404 and 403 answers
DeleteCommunityFind(u, c) ==
  LET comunidadExistente == findCommunity(c)
  IN /\ deleteReq.pc = "idle"
     /\ IF comunidadExistente = NoCommunity
        THEN /\ resp' = Response("deleteCommunity", u, c, 0, 0, "", 404, {})
             /\ UNCHANGED deleteReq
        ELSE IF comunidadExistente.createdById # u
        THEN /\ resp' = Response("deleteCommunity", u, c, 0, 0, "", 403, {})
             /\ UNCHANGED deleteReq
        ELSE /\ deleteReq' = [pc |-> "posts", userId |-> u, communityId |-> c]
             /\ UNCHANGED resp
     /\ UNCHANGED <<db, joinReq, subscribeReq, toggleReq, deletePostReq, cloudinary>>

\* await prisma.post.deleteMany({ where: { communityId } })
DeleteCommunityPosts(ok) ==
  LET u == deleteReq.userId
      c == deleteReq.communityId
  IN /\ deleteReq.pc = "posts"
     /\ IF ok
        THEN /\ post' = {q \in post : q.communityId # c}
             /\ comment' = commentsWithoutPosts(postIdsOf(c))
             /\ reaction' = reactionsWithoutPosts(postIdsOf(c))
             /\ deleteReq' = [deleteReq EXCEPT !.pc = "memberships"]
             /\ UNCHANGED resp
        ELSE /\ resp' = Response("deleteCommunity", u, c, 0, 0, "", 500, {})
             /\ deleteReq' = IdleDeletion
             /\ UNCHANGED <<post, comment, reaction>>
     /\ UNCHANGED <<tipo_usuario, suscritoAComunidadesIds, community, communityMembership,
                    nextCommunityId, nextPostId, joinReq, nextCommentId,
                    subscribeReq, toggleReq, deletePostReq, cloudinary>>

\* await prisma.communityMembership.deleteMany({ where: { communityId } })
DeleteCommunityMemberships(ok) ==
  LET u == deleteReq.userId
      c == deleteReq.communityId
  IN /\ deleteReq.pc = "memberships"
     /\ IF ok
        THEN /\ communityMembership' = membershipsWithoutCommunity(c)
             /\ deleteReq' = [deleteReq EXCEPT !.pc = "community"]
             /\ UNCHANGED resp
        ELSE /\ resp' = Response("deleteCommunity", u, c, 0, 0, "", 500, {})
             /\ deleteReq' = IdleDeletion
             /\ UNCHANGED communityMembership
     /\ UNCHANGED <<tipo_usuario, suscritoAComunidadesIds, community, post,
                    nextCommunityId, nextPostId, joinReq, comment, reaction, nextCommentId,
                    subscribeReq, toggleReq, deletePostReq, cloudinary>>

\* await prisma.community.delete({ where: { id } }), with the onDelete: Cascade
\* of CommunityMembership.community and Post.community, then the 200 answer
DeleteCommunityRecord(ok) ==
  LET u == deleteReq.userId
      c == deleteReq.communityId
  IN /\ deleteReq.pc = "community"
     /\ deleteReq' = IdleDeletion
     /\ IF ok
        THEN /\ community' = [community EXCEPT ![c] = NoCommunity]
             /\ communityMembership' = membershipsWithoutCommunity(c)
             /\ post' = {q \in post : q.communityId # c}
             /\ comment' = commentsWithoutPosts(postIdsOf(c))
             /\ reaction' = reactionsWithoutPosts(postIdsOf(c))
             /\ resp' = Response("deleteCommunity", u, c, 0, 0, "", 200, {})
        ELSE /\ resp' = Response("deleteCommunity", u, c, 0, 0, "", 500, {})
             /\ UNCHANGED <<community, communityMembership, post, comment, reaction>>
     /\ UNCHANGED <<tipo_usuario, suscritoAComunidadesIds, nextCommunityId, nextPostId,
                    joinReq, nextCommentId,
                    subscribeReq, toggleReq, deletePostReq, cloudinary>>

Next ==
  \/ \E u \in Users, b \in BOOLEAN : CreateCommunity(u, b)
  \/ \E u \in Users, c \in CommunityIds, b \in BOOLEAN : UpdateCommunity(u, c, b)
  \/ \E u \in Users, c \in CommunityIds : Join(u, c)
  \/ \E u \in Users, c \in CommunityIds : Leave(u, c)
  \/ \E u \in Users, c \in CommunityIds, m \in Users, r \in RoleInCommunity :
       SetRole(u, c, m, r)
  \/ \E u \in Users, c \in CommunityIds, m \in Users : Remove(u, c, m)
  \/ \E u \in Users, c \in CommunityIds, m \in Users, b \in BOOLEAN :
       TogglePremiumPermission(u, c, m, b)
  \/ \E u \in Users, c \in 1..(nextCommunityId - 1) : Subscribe(u, c)
  \/ \E u \in Users, c \in 1..(nextCommunityId - 1) : Unsubscribe(u, c)
  \/ \E u \in Users, c \in CommunityIds, t \in Titles, x \in Contents, b \in BOOLEAN :
       CreatePost(u, c, t, x, b)
  \/ \E u \in Users, c \in CommunityIds : ListPosts(u, c)
  \/ \E u \in Users, p \in PostIds : GetPost(u, p)

Spec == Init /\ [][Next]_vars

\* Concurrent join requests, with the membership writes of the other handlers.
NextJoin ==
  \/ \E u \in Users, b \in BOOLEAN : CreateCommunity(u, b)
  \/ \E s \in Slots, u \in Users, c \in CommunityIds : JoinFindCommunity(s, u, c)
  \/ \E s \in Slots : JoinFindMembership(s)
  \/ \E s \in Slots : JoinCreateMembership(s)
  \/ \E u \in Users, c \in CommunityIds : Leave(u, c)
  \/ \E u \in Users, c \in CommunityIds, m \in Users, r \in RoleInCommunity :
       SetRole(u, c, m, r)
  \/ \E u \in Users, c \in CommunityIds, m \in Users : Remove(u, c, m)

SpecJoin == Init /\ [][NextJoin]_vars

\* Comments, reactions and the deletion of posts and comments, with the
\* membership writes that decide who may do what.
NextContent ==
  \/ \E u \in Users : CreateCommunity(u, TRUE)
  \/ \E u \in Users, c \in CommunityIds : Join(u, c)
  \/ \E u \in Users, c \in CommunityIds, m \in Users, r \in RoleInCommunity :
       SetRole(u, c, m, r)
  \/ \E u \in Users, c \in CommunityIds, t \in Titles, x \in Contents :
       CreatePost(u, c, t, x, FALSE)
  \/ \E u \in Users, p \in PostIds : DeletePost(u, p)
  \/ \E u \in Users, p \in PostIds : CreateComment(u, p)
  \/ \E u \in Users, k \in CommentIds : DeleteComment(u, k)
  \/ \E u \in Users, p \in PostIds : ToggleReaction(u, p)

SpecContent == Init /\ [][NextContent]_vars

\* The writes to the Post collection.
NextEdit ==
  \/ \E u \in Users : CreateCommunity(u, TRUE)
  \/ \E u \in Users, c \in CommunityIds : Join(u, c)
  \/ \E u \in Users, c \in CommunityIds, m \in Users, r \in RoleInCommunity :
       SetRole(u, c, m, r)
  \/ \E u \in Users, c \in CommunityIds, t \in Titles, x \in Contents, b \in BOOLEAN :
       CreatePost(u, c, t, x, b)
  \/ \E u \in Users, p \in PostIds, t \in EditTitles, x \in EditContents : EditPost(u, p, t, x)
  \/ \E u \in Users, p \in PostIds : DeletePost(u, p)

SpecEdit == Init /\ [][NextEdit]_vars

\* The deletion of a community await by await, each persistence call able to
\* fail, with the requests that add content and members to the community.
NextDelete ==
  \/ \E u \in Users : CreateCommunity(u, TRUE)
  \/ \E u \in Users, c \in CommunityIds : Join(u, c)
  \/ \E u \in Users, c \in CommunityIds, t \in Titles, x \in Contents :
       CreatePost(u, c, t, x, FALSE)
  \/ \E u \in Users, p \in PostIds : CreateComment(u, p)
  \/ \E u \in Users, k \in CommentIds : DeleteComment(u, k)
  \/ \E u \in Users, p \in PostIds : ToggleReaction(u, p)
  \/ \E u \in Users, c \in CommunityIds : DeleteCommunityFind(u, c)
  \/ \E ok \in BOOLEAN : DeleteCommunityPosts(ok)
  \/ \E ok \in BOOLEAN : DeleteCommunityMemberships(ok)
  \/ \E ok \in BOOLEAN : DeleteCommunityRecord(ok)

SpecDelete == Init /\ [][NextDelete]_vars

\* The requests on a community itself: its profile, its logo and its deletion
\* await by await, with the join requests that give it members.
NextCommunity ==
  \/ \E u \in Users, b \in BOOLEAN : CreateCommunity(u, b)
  \/ \E u \in Users, c \in CommunityIds, b \in BOOLEAN : UpdateCommunity(u, c, b)
  \/ \E u \in Users, c \in CommunityIds, ok \in BOOLEAN : UpdateCommunityLogo(u, c, ok)
  \/ \E u \in Users, c \in CommunityIds : Join(u, c)
  \/ \E u \in Users, c \in CommunityIds : DeleteCommunityFind(u, c)
  \/ \E ok \in BOOLEAN : DeleteCommunityPosts(ok)
  \/ \E ok \in BOOLEAN : DeleteCommunityMemberships(ok)
  \/ \E ok \in BOOLEAN : DeleteCommunityRecord(ok)

SpecCommunity == Init /\ [][NextCommunity]_vars

\* The subscriptions: subscribe await by await with several requests in
\* flight, unsubscribe, and the requests that give memberships.
NextSubscribe ==
  \/ \E u \in Users : CreateCommunity(u, TRUE)
  \/ \E u \in Users, c \in CommunityIds : Join(u, c)
  \/ \E s \in Slots, u \in Users, c \in SubscribableIds : SubscribeFind(s, u, c)
  \/ \E s \in Slots, ok \in BOOLEAN : SubscribePush(s, ok)
  \/ \E u \in Users, c \in SubscribableIds : Unsubscribe(u, c)

SpecSubscribe == Init /\ [][NextSubscribe]_vars

\* The unlocks of the accounts: subscribe and unsubscribe await by await with
\* several requests in flight, each write able to fail.
NextUnlocks ==
  \/ \E s \in Slots, u \in Users, c \in SubscribableIds : SubscribeFind(s, u, c)
  \/ \E s \in Slots, ok \in BOOLEAN : SubscribePush(s, ok)
  \/ \E s \in Slots, u \in Users, c \in SubscribableIds : UnsubscribeFind(s, u, c)
  \/ \E s \in Slots, ok \in BOOLEAN : UnsubscribeSet(s, ok)

SpecUnlocks == Init /\ [][NextUnlocks]_vars

\* The same requests with the scheduling of the handlers: a persistence call
\* settles, and the handler that awaits it then runs on.
SpecUnlocksFair ==
  /\ SpecUnlocks
  /\ \A s \in Slots : WF_vars(\E ok \in BOOLEAN : SubscribePush(s, ok))
  /\ \A s \in Slots : WF_vars(\E ok \in BOOLEAN : UnsubscribeSet(s, ok))

\* The reaction toggle await by await with several requests in flight, on the
\* posts of a community and by its members.
NextReact ==
  \/ \E u \in Users : CreateCommunity(u, TRUE)
  \/ \E u \in Users, c \in CommunityIds : Join(u, c)
  \/ \E u \in Users, c \in CommunityIds, t \in Titles, x \in Contents :
       CreatePost(u, c, t, x, FALSE)
  \/ \E s \in Slots, u \in Users, p \in PostIds : ToggleFindPost(s, u, p)
  \/ \E s \in Slots : ToggleFindMembership(s)
  \/ \E s \in Slots : ToggleFindFirst(s)
  \/ \E s \in Slots : ToggleDelete(s)
  \/ \E s \in Slots : ToggleCreate(s)

SpecReact == Init /\ [][NextReact]_vars

\* The deletion of a post await by await with several requests in flight, on
\* posts that carry an image and comments.
NextPostDelete ==
  \/ \E u \in Users : CreateCommunity(u, TRUE)
  \/ \E u \in Users, c \in CommunityIds : Join(u, c)
  \/ \E u \in Users, c \in CommunityIds, t \in Titles, x \in Contents, ok \in BOOLEAN :
       CreatePostWithImage(u, c, t, x, FALSE, ok)
  \/ \E u \in Users, p \in PostIds : CreateComment(u, p)
  \/ \E s \in Slots, u \in Users, p \in PostIds : DeletePostFind(s, u, p)
  \/ \E s \in Slots : DeletePostFindMembership(s)
  \/ \E s \in Slots, ok \in BOOLEAN : DeletePostCloudinary(s, ok)
  \/ \E s \in Slots, ok \in BOOLEAN : DeletePostComments(s, ok)
  \/ \E s \in Slots, ok \in BOOLEAN : DeletePostRecord(s, ok)

SpecPostDelete == Init /\ [][NextPostDelete]_vars

\* One deletion of a post await by await, between the requests that change
\* the role and the membership of the requester, on posts without an image.
NextPostDeleteRoles ==
  \/ \E u \in Users : CreateCommunity(u, TRUE)
  \/ \E u \in Users, c \in CommunityIds : Join(u, c)
  \/ \E u \in Users, c \in CommunityIds : Leave(u, c)
  \/ \E u \in Users, c \in CommunityIds, m \in Users, r \in RoleInCommunity :
       SetRole(u, c, m, r)
  \/ \E u \in Users, c \in CommunityIds, m \in Users : Remove(u, c, m)
  \/ \E u \in Users, c \in CommunityIds, t \in Titles, x \in Contents :
       CreatePost(u, c, t, x, FALSE)
  \/ \E u \in Users, p \in PostIds : CreateComment(u, p)
  \/ \E u \in Users, p \in PostIds : DeletePostFind(1, u, p)
  \/ DeletePostFindMembership(1)
  \/ \E ok \in BOOLEAN : DeletePostComments(1, ok)
  \/ \E ok \in BOOLEAN : DeletePostRecord(1, ok)

SpecPostDeleteRoles == Init /\ [][NextPostDeleteRoles]_vars

\* One reaction toggle await by await between the requests that create,
\* comment and delete the posts.
NextReactDelete ==
  \/ \E u \in Users : CreateCommunity(u, TRUE)
  \/ \E u \in Users, c \in CommunityIds : Join(u, c)
  \/ \E u \in Users, c \in CommunityIds, t \in Titles, x \in Contents :
       CreatePost(u, c, t, x, FALSE)
  \/ \E u \in Users, p \in PostIds : CreateComment(u, p)
  \/ \E u \in Users, p \in PostIds : DeletePost(u, p)
  \/ \E u \in Users, p \in PostIds : ToggleFindPost(1, u, p)
  \/ ToggleFindMembership(1)
  \/ ToggleFindFirst(1)
  \/ ToggleDelete(1)
  \/ ToggleCreate(1)

SpecReactDelete == Init /\ [][NextReactDelete]_vars

\* The read operations between the requests that create communities, posts,
\* memberships, moderators and unlocks.
NextReads ==
  \/ \E u \in Users, b \in BOOLEAN : CreateCommunity(u, b)
  \/ \E u \in Users, c \in CommunityIds : Join(u, c)
  \/ \E u \in Users, c \in CommunityIds, m \in Users, r \in RoleInCommunity :
       SetRole(u, c, m, r)
  \/ \E u \in Users, c \in 1..(nextCommunityId - 1) : Subscribe(u, c)
  \/ \E u \in Users, c \in CommunityIds, t \in Titles, x \in Contents, b \in BOOLEAN :
       CreatePost(u, c, t, x, b)
  \/ \E u \in Users, c \in CommunityIds : ListPosts(u, c)
  \/ \E u \in Users, p \in PostIds : GetPost(u, p)
  \/ \E u \in Users : GetFeed(u)
  \/ \E u \in Users, userId \in Users : GetUserPosts(u, userId)
  \/ \E u \in Users : Search(u)

SpecReads == Init /\ [][NextReads]_vars

\* ================================================================ properties
\* The requester, community and post the last response answers.
reqUser == resp.userId
reqCommunity == resp.communityId
reqPost == findPost(resp.postId)

communityExists(c) == c \in CommunityIds /\ community[c] # NoCommunity
communityPosts(c) == {q \in post : q.communityId = c}
hasMembership(u, c) == membershipCount(u, c) > 0
roleOf(u, c) == findMembership(u, c).role
isAuthorOf(u, q) == q.authorId = u
isCreatorOf(u, c) == communityExists(c) /\ community[c].createdById = u
isSubscribedTo(u, c) == \E i \in DOMAIN suscritoAComunidadesIds[u] : suscritoAComunidadesIds[u][i] = c

\* Section 4.3, step 2: hasPremiumAccess.
hasPremiumAccess(u, q) ==
  \/ isAuthorOf(u, q)
  \/ isCreatorOf(u, q.communityId)
  \/ roleOf(u, q.communityId) = "MODERATOR"
  \/ isSubscribedTo(u, q.communityId)

\* Author, community creator or moderator of the post's community.
isPrivileged(u, q) ==
  \/ isAuthorOf(u, q)
  \/ isCreatorOf(u, q.communityId)
  \/ roleOf(u, q.communityId) = "MODERATOR"

redacted(q) == [q EXCEPT !.content = Placeholder]

detailAnswered == resp.op = "getPost" /\ reqPost # NoPost
listingAnswered == resp.op = "listPosts" /\ communityExists(reqCommunity)

\* C1: a premium post asked for through the detail endpoint is returned in full
\* exactly when the requester is its author, the creator of its community, a
\* Moderator of that community or subscribed to it; otherwise the answer is 403
\* and carries no post.
C1_DetailPremiumAccess ==
  (detailAnswered /\ reqPost.esPremium) =>
     /\ hasPremiumAccess(reqUser, reqPost) <=> (resp.status = 200 /\ resp.body = {reqPost})
     /\ ~hasPremiumAccess(reqUser, reqPost) <=> (resp.status = 403 /\ resp.body = {})

\* C1 witness: a subscriber who is neither author, creator nor moderator reads a
\* premium post in full.
C1_Witness ==
  /\ detailAnswered /\ reqPost.esPremium
  /\ ~isPrivileged(reqUser, reqPost)
  /\ isSubscribedTo(reqUser, reqPost.communityId)
  /\ resp.status = 200 /\ resp.body = {reqPost}

\* C2: the author of a premium post, the creator of its community and a
\* Moderator of its community get the unredacted post from the detail endpoint
\* and from the community post listing, in every reachable state.
C2_PrivilegedAlwaysFull ==
  /\ (detailAnswered /\ reqPost.esPremium /\ isPrivileged(reqUser, reqPost))
        => (resp.status = 200 /\ resp.body = {reqPost})
  /\ listingAnswered =>
        \A q \in communityPosts(reqCommunity) :
           (q.esPremium /\ isPrivileged(reqUser, q)) => (resp.status = 200 /\ q \in resp.body)

\* C3: when the community is private and the requester neither has a membership
\* in it nor created it, the listing and the detail request are both denied and
\* carry no post.
C3_CommunityGateFirst ==
  LET c == IF resp.op = "getPost" THEN reqPost.communityId ELSE reqCommunity
  IN ((detailAnswered \/ listingAnswered)
        /\ communityExists(c) /\ ~community[c].esPublica
        /\ ~hasMembership(reqUser, c) /\ ~isCreatorOf(reqUser, c))
     => (resp.status # 200 /\ resp.body = {})

\* C4: a listing requester who passes the community gate gets status 200; every
\* premium post the requester has no premium access to comes back with the
\* placeholder as content and every other field as stored; every non-premium
\* post comes back as stored; one entry per post of the community.
C4_ListingRedacts ==
  (listingAnswered
     /\ (community[reqCommunity].esPublica \/ hasMembership(reqUser, reqCommunity)))
  => /\ resp.status = 200
     /\ \A q \in communityPosts(reqCommunity) :
          /\ (q.esPremium /\ ~hasPremiumAccess(reqUser, q))
                => (redacted(q) \in resp.body /\ q \notin resp.body)
          /\ ~q.esPremium => q \in resp.body
     /\ {v.id : v \in resp.body} = {q.id : q \in communityPosts(reqCommunity)}
     /\ Cardinality(resp.body) = Cardinality(communityPosts(reqCommunity))

\* C4 witness: one listing holding a redacted premium post and a non-premium
\* post with its real content.
C4_Witness ==
  /\ listingAnswered /\ resp.status = 200
  /\ \E q \in communityPosts(reqCommunity) :
       q.esPremium /\ ~hasPremiumAccess(reqUser, q) /\ redacted(q) \in resp.body
  /\ \E q \in communityPosts(reqCommunity) : ~q.esPremium /\ q \in resp.body

\* C5 as stated: a post whose premium flag is false is returned in full to any
\* requester whatever, in detail and in listing mode.
C5_NonPremiumAlwaysFull ==
  /\ (detailAnswered /\ ~reqPost.esPremium) => (resp.status = 200 /\ resp.body = {reqPost})
  /\ listingAnswered =>
        \A q \in communityPosts(reqCommunity) :
           ~q.esPremium => (resp.status = 200 /\ q \in resp.body)

\* C5 amended: a post whose premium flag is false is returned in full to any
\* requester the community-level gate lets through: always in detail mode, and in
\* listing mode whenever the community is public or the requester is a member.
C5_NonPremiumFullPastGate ==
  /\ (detailAnswered /\ ~reqPost.esPremium) => (resp.status = 200 /\ resp.body = {reqPost})
  /\ (listingAnswered
        /\ (community[reqCommunity].esPublica \/ hasMembership(reqUser, reqCommunity)))
     => \A q \in communityPosts(reqCommunity) :
           ~q.esPremium => (resp.status = 200 /\ q \in resp.body)

\* C5 witness: a requester with no membership and no subscription lists a public
\* community and gets a non-premium post with its real content.
C5_Witness ==
  /\ listingAnswered /\ resp.status = 200
  /\ ~hasMembership(reqUser, reqCommunity) /\ ~isSubscribedTo(reqUser, reqCommunity)
  /\ \E q \in communityPosts(reqCommunity) : ~q.esPremium /\ q \in resp.body

\* The post a createPost step has added, if any.
createdBy(u, c) == {q \in post' \ post : q.authorId = u /\ q.communityId = c}

mayCreatePost(u, c) == isCreatorOf(u, c) \/ roleOf(u, c) = "MODERATOR"

\* C6: creating a post is permitted exactly to the community's creator and to its
\* Moderators: anyone else gets 403 and no post is created; a creator or
\* Moderator asking for a non-premium post gets it created.
C6_CreatePostRole ==
  [][(resp'.op = "createPost" /\ communityExists(resp'.communityId)) =>
       LET u == resp'.userId
           c == resp'.communityId
       IN /\ ~mayCreatePost(u, c) => (resp'.status = 403 /\ post' = post)
          /\ (mayCreatePost(u, c) /\ resp'.arg = "false")
                => (resp'.status = 201 /\ Cardinality(createdBy(u, c)) = 1
                    /\ Cardinality(post' \ post) = 1 /\ post \subseteq post')
          /\ resp'.status = 201 => mayCreatePost(u, c)]_vars

\* C6 witness: a plain Member was refused.
C6_Witness ==
  /\ resp.op = "createPost" /\ resp.status = 403
  /\ roleOf(reqUser, reqCommunity) = "MEMBER"

\* C7: a requester allowed to create a post may mark it premium exactly when the
\* account kind is Elevated (OG) or the requester is a Moderator with
\* canPublishPremium; a premium request without that is answered 403 and creates
\* nothing; a created post is premium exactly when premium was asked and permitted.
C7_PremiumAtCreation ==
  [][(resp'.op = "createPost" /\ communityExists(resp'.communityId)
        /\ mayCreatePost(resp'.userId, resp'.communityId)) =>
       LET u == resp'.userId
           c == resp'.communityId
           permitted == \/ tipo_usuario[u] = "OG"
                        \/ /\ roleOf(u, c) = "MODERATOR"
                           /\ findMembership(u, c).canPublishPremiumContent
       IN /\ (resp'.arg = "true" /\ ~permitted) => (resp'.status = 403 /\ post' = post)
          /\ (resp'.arg = "true" /\ permitted)
                => (resp'.status = 201 /\ \A q \in createdBy(u, c) : q.esPremium)
          /\ resp'.arg = "false" => \A q \in createdBy(u, c) : ~q.esPremium]_vars

\* The row of a pair in a given CommunityMembership collection.
rowIn(ms, u, c) ==
  LET rows == {m \in BagToSet(ms) : m.userId = u /\ m.communityId = c}
  IN IF rows = {} THEN NoMembership ELSE CHOOSE m \in rows : TRUE

\* C8: in the grant sequence (A creates C, B joins, A makes B Moderator), B's
\* premium post is refused with 403 and creates nothing while B's
\* canPublishPremium is false; A's setPremiumPublishFlag(B, true) succeeds and
\* sets the flag; from then on the same request by B creates a premium post.
C8_GrantSequence ==
  [][LET u == resp'.userId
         c == resp'.communityId
         m == resp'.memberUserId
         before == communityMembership
         after == communityMembership'
     IN /\ (resp'.op = "join" /\ resp'.status = 201)
             => /\ rowIn(after, u, c).role = "MEMBER"
                /\ ~rowIn(after, u, c).canPublishPremiumContent
        /\ (resp'.op = "setRole" /\ resp'.arg = "MODERATOR"
              /\ isCreatorOf(u, c) /\ rowIn(before, m, c).role = "MEMBER")
             => /\ resp'.status = 200
                /\ rowIn(after, m, c).role = "MODERATOR"
                /\ rowIn(after, m, c).canPublishPremiumContent
                     = rowIn(before, m, c).canPublishPremiumContent
        /\ (resp'.op = "togglePremiumPermission" /\ resp'.arg = "true"
              /\ isCreatorOf(u, c) /\ rowIn(before, m, c).role = "MODERATOR")
             => /\ resp'.status = 200
                /\ rowIn(after, m, c).role = "MODERATOR"
                /\ rowIn(after, m, c).canPublishPremiumContent
        /\ (resp'.op = "createPost" /\ resp'.arg = "true"
              /\ tipo_usuario[u] = "CREW" /\ ~isCreatorOf(u, c)
              /\ rowIn(before, u, c).role = "MODERATOR")
             => IF rowIn(before, u, c).canPublishPremiumContent
                THEN /\ resp'.status = 201
                     /\ Cardinality(createdBy(u, c)) = 1
                     /\ \A q \in createdBy(u, c) : q.esPremium
                ELSE resp'.status = 403 /\ post' = post]_vars

\* C8 witness: a Standard (CREW) Moderator who is not the creator has just
\* created a premium post.
C8_Witness ==
  /\ resp.op = "createPost" /\ resp.status = 201 /\ resp.arg = "true"
  /\ tipo_usuario[reqUser] = "CREW"
  /\ ~isCreatorOf(reqUser, reqCommunity)
  /\ roleOf(reqUser, reqCommunity) = "MODERATOR"
  /\ findMembership(reqUser, reqCommunity).canPublishPremiumContent
  /\ reqPost.esPremium /\ reqPost.authorId = reqUser

\* C9: never two CommunityMembership rows for one (account, community) pair;
\* of join requests racing for the same pair, the create of one adds the single
\* row and answers 201, the create of any other finds the row, adds none and
\* answers 409.
C9_UniqueMembership ==
  /\ [](\A u \in Users, c \in CommunityIds : membershipCount(u, c) <= 1)
  /\ [][\A s \in Slots :
          (joinReq[s].pc = "create" /\ joinReq'[s].pc = "done") =>
             LET u == joinReq[s].userId
                 c == joinReq[s].communityId
             IN /\ membershipCount(u, c)' = 1
                /\ IF membershipCount(u, c) = 0
                   THEN joinReq'[s].status = 201
                   ELSE joinReq'[s].status = 409 /\ communityMembership' = communityMembership]_vars

\* C9 witness: two join requests for the same pair both passed the membership
\* check; one answered 201, the create of the other failed on the unique index
\* and answered 409, and one row exists.
C9_Witness ==
  \E s, t \in Slots :
     /\ s # t
     /\ joinReq[s].pc = "done" /\ joinReq[t].pc = "done"
     /\ joinReq[s].userId = joinReq[t].userId
     /\ joinReq[s].communityId = joinReq[t].communityId
     /\ joinReq[s].createdById # joinReq[s].userId
     /\ joinReq[s].status = 201
     /\ joinReq[t].status = 409 /\ joinReq[t].code = "P2002"
     /\ membershipCount(joinReq[s].userId, joinReq[s].communityId) = 1

\* C10: join by an account with no membership that is not the creator adds one
\* row with role MEMBER and canPublishPremium false and answers 201; join by an
\* account that has a membership, or is the creator, answers 409 and leaves the
\* memberships as they were.
C10_Join ==
  [][(resp'.op = "join" /\ communityExists(resp'.communityId)) =>
       LET u == resp'.userId
           c == resp'.communityId
       IN IF ~hasMembership(u, c) /\ ~isCreatorOf(u, c)
          THEN /\ resp'.status = 201
               /\ communityMembership' = communityMembership (+)
                    SetToBag({[userId |-> u, communityId |-> c, role |-> "MEMBER",
                               canPublishPremiumContent |-> FALSE]})
          ELSE resp'.status = 409 /\ communityMembership' = communityMembership]_vars

\* C10 witness: a Moderator asked to join again and got 409.
C10_Witness ==
  /\ resp.op = "join" /\ resp.status = 409
  /\ roleOf(reqUser, reqCommunity) = "MODERATOR"

\* The Creator rows of a CommunityMembership collection.
creatorRows(ms) == {m \in BagToSet(ms) : m.role = "CREATOR"}

membershipOps == {"join", "leave", "setRole", "remove", "togglePremiumPermission", "subscribe"}

denied(status) == status \in {400, 403, 404}

\* C11: Creator is terminal: no membership operation (join, leave, setRole,
\* remove, togglePremiumPermission, subscribe) makes a row a Creator row, changes
\* a Creator row or deletes one; leave by the creator is answered 403, and
\* setRole and remove aimed at the creator are denied.
C11_CreatorTerminal ==
  [][resp'.op \in membershipOps =>
       LET u == resp'.userId
           c == resp'.communityId
           m == resp'.memberUserId
       IN /\ creatorRows(communityMembership') = creatorRows(communityMembership)
          /\ \A r \in creatorRows(communityMembership) :
               CopiesIn(r, communityMembership') = CopiesIn(r, communityMembership)
          /\ (resp'.op = "leave" /\ roleOf(u, c) = "CREATOR") => resp'.status = 403
          /\ (resp'.op \in {"setRole", "remove"} /\ roleOf(m, c) = "CREATOR")
               => denied(resp'.status)]_vars

\* C11 witness: the creator asked to leave, got 403 and still holds the Creator row.
C11_Witness ==
  /\ resp.op = "leave" /\ resp.status = 403
  /\ isCreatorOf(reqUser, reqCommunity)
  /\ roleOf(reqUser, reqCommunity) = "CREATOR"

\* Number of Creator rows of a community.
creatorCount(c) ==
  LET RECURSIVE sum(_)
      sum(S) == IF S = {} THEN 0
                ELSE LET m == CHOOSE x \in S : TRUE
                     IN CopiesIn(m, communityMembership) + sum(S \ {m})
  IN sum({m \in creatorRows(communityMembership) : m.communityId = c})

\* C12: whenever no request is in flight, every existing community has exactly
\* one membership with role Creator, and it belongs to the account recorded as
\* the community's creator; also after a community deletion in which one
\* persistence step failed.
C12_OneCreatorMembership ==
  deleteReq.pc = "idle" =>
    \A c \in CommunityIds :
       communityExists(c) =>
          /\ creatorCount(c) = 1
          /\ \A m \in creatorRows(communityMembership) :
               m.communityId = c => m.userId = community[c].createdById

\* The CommunityMembership collection with one row replaced by another.
withRow(ms, old, new) == (ms (-) SetToBag({old})) (+) SetToBag({new})

\* C13: setRole changes a membership only when the invoker is the community's
\* creator, the target is another account and the target holds a non-Creator
\* membership in the community; the change is the target's role, set to MEMBER
\* or MODERATOR; when the invoker is not the creator, or the target is the
\* invoker, is the Creator or is not a member, the request is denied and no
\* membership changes.
C13_SetRole ==
  [][resp'.op = "setRole" =>
       LET u == resp'.userId
           c == resp'.communityId
           m == resp'.memberUserId
           old == rowIn(communityMembership, m, c)
           allowed == /\ isCreatorOf(u, c) /\ m # u
                      /\ old # NoMembership /\ old.role # "CREATOR"
       IN /\ communityMembership' # communityMembership =>
               /\ allowed
               /\ resp'.arg \in {"MEMBER", "MODERATOR"}
               /\ resp'.status = 200
               /\ communityMembership' =
                    withRow(communityMembership, old, [old EXCEPT !.role = resp'.arg])
          /\ ~allowed => (denied(resp'.status) /\ communityMembership' = communityMembership)
          /\ UNCHANGED <<community, suscritoAComunidadesIds, post>>]_vars

\* C13 witness: the creator has turned a Moderator holding the premium
\* permission back into a Member.
C13_Witness ==
  /\ resp.op = "setRole" /\ resp.status = 200 /\ resp.arg = "MEMBER"
  /\ isCreatorOf(reqUser, reqCommunity)
  /\ resp.memberUserId # reqUser
  /\ roleOf(resp.memberUserId, reqCommunity) = "MEMBER"
  /\ findMembership(resp.memberUserId, reqCommunity).canPublishPremiumContent

\* C14: setRole by the creator asking for the role the target already has is
\* answered 200 and changes nothing: not the membership, not its
\* canPublishPremium flag, no other collection.
C14_SetRoleSameRole ==
  [][(/\ resp'.op = "setRole"
      /\ isCreatorOf(resp'.userId, resp'.communityId)
      /\ resp'.memberUserId # resp'.userId
      /\ hasMembership(resp'.memberUserId, resp'.communityId)
      /\ roleOf(resp'.memberUserId, resp'.communityId) = resp'.arg)
     => (resp'.status = 200 /\ UNCHANGED db)]_vars

\* C14 witness: the creator asked for MODERATOR for an account that is a
\* Moderator holding the premium permission, and got 200.
C14_Witness ==
  /\ resp.op = "setRole" /\ resp.status = 200 /\ resp.arg = "MODERATOR"
  /\ isCreatorOf(reqUser, reqCommunity)
  /\ roleOf(resp.memberUserId, reqCommunity) = "MODERATOR"
  /\ findMembership(resp.memberUserId, reqCommunity).canPublishPremiumContent

\* C15: remove deletes a membership only when the invoker is the community's
\* creator and the target is another account holding a MEMBER or MODERATOR
\* membership, and then deletes exactly that row; it is denied, and no
\* membership changes, when the invoker is not the creator, the target is the
\* invoker or the target's role is Creator.
C15_Remove ==
  [][resp'.op = "remove" =>
       LET u == resp'.userId
           c == resp'.communityId
           m == resp'.memberUserId
           old == rowIn(communityMembership, m, c)
       IN /\ communityMembership' # communityMembership =>
               /\ isCreatorOf(u, c) /\ m # u
               /\ old.role \in {"MEMBER", "MODERATOR"}
               /\ resp'.status = 200
               /\ communityMembership' = communityMembership (-) SetToBag({old})
          /\ (~isCreatorOf(u, c) \/ m = u \/ old.role = "CREATOR")
               => (denied(resp'.status) /\ communityMembership' = communityMembership)
          /\ (isCreatorOf(u, c) /\ m # u /\ old.role \in {"MEMBER", "MODERATOR"})
               => (resp'.status = 200 /\ ~rowIn(communityMembership', m, c) # NoMembership)]_vars

\* C15 witness: the creator has removed another account, which has no
\* membership left.
C15_Witness ==
  /\ resp.op = "remove" /\ resp.status = 200
  /\ isCreatorOf(reqUser, reqCommunity)
  /\ resp.memberUserId # reqUser
  /\ ~hasMembership(resp.memberUserId, reqCommunity)

\* C16: the toggle changes a membership's canPublishPremium flag only when the
\* invoker is the community's creator and the target's role is MODERATOR, and
\* then changes nothing but that flag; for a target that is a plain Member, the
\* Creator or not a member, and for an invoker who is not the creator, the
\* request is denied and no membership changes.
C16_TogglePremiumPermission ==
  [][resp'.op = "togglePremiumPermission" =>
       LET u == resp'.userId
           c == resp'.communityId
           m == resp'.memberUserId
           old == rowIn(communityMembership, m, c)
           new == rowIn(communityMembership', m, c)
       IN /\ communityMembership' # communityMembership =>
               /\ isCreatorOf(u, c) /\ old.role = "MODERATOR"
               /\ resp'.status = 200
               /\ new.canPublishPremiumContent = (resp'.arg = "true")
               /\ communityMembership' = withRow(communityMembership, old,
                    [old EXCEPT !.canPublishPremiumContent = (resp'.arg = "true")])
          /\ (~isCreatorOf(u, c) \/ old.role # "MODERATOR")
               => (denied(resp'.status) /\ communityMembership' = communityMembership)]_vars

\* C16 witness: the creator asked for the permission for a plain Member and got
\* 400; the Member's flag is false.
C16_Witness ==
  /\ resp.op = "togglePremiumPermission" /\ resp.status = 400 /\ resp.arg = "true"
  /\ isCreatorOf(reqUser, reqCommunity)
  /\ roleOf(resp.memberUserId, reqCommunity) = "MEMBER"
  /\ ~findMembership(resp.memberUserId, reqCommunity).canPublishPremiumContent

\* Section 4.2: who may delete a post or a comment of community c written by
\* authorId.
mayDelete(u, authorId, c) ==
  authorId = u \/ isCreatorOf(u, c) \/ roleOf(u, c) = "MODERATOR"

\* C17: deleting an existing post or comment is answered 200 and removes it
\* exactly when the requester is its author, the creator of the community that
\* owns the post, or a Moderator of that community; any other requester is
\* answered 403 and posts, comments and reactions stay as they were.
C17_DeleteAuthorization ==
  [][/\ (resp'.op = "deletePost" /\ resp' # resp /\ resp'.body # {}) =>
          LET q == CHOOSE x \in resp'.body : TRUE
          IN IF mayDelete(resp'.userId, q.authorId, q.communityId)
             THEN resp'.status = 200 /\ q \notin post'
             ELSE /\ resp'.status = 403
                  /\ UNCHANGED <<post, comment, reaction>>
     /\ (resp'.op = "deleteComment" /\ resp' # resp /\ resp'.body # {}) =>
          LET k == CHOOSE x \in resp'.body : TRUE
          IN IF mayDelete(resp'.userId, k.authorId, findPost(k.postId).communityId)
             THEN resp'.status = 200 /\ k \notin comment'
             ELSE /\ resp'.status = 403
                  /\ UNCHANGED <<post, comment, reaction>>]_vars

\* C18: the title and content of an existing post change only on an edit by
\* the post's author answered 200, which writes the fields the body gives and
\* no other; an edit by anyone else is answered 403 and changes no post; no
\* step changes the premium flag, author or community of an existing post.
C18_PostFrame ==
  [][/\ \A q \in post : \A r \in post' :
          r.id = q.id =>
             /\ r.esPremium = q.esPremium
             /\ r.authorId = q.authorId
             /\ r.communityId = q.communityId
             /\ (r.title # q.title \/ r.content # q.content) =>
                   /\ resp'.op = "editPost" /\ resp'.status = 200
                   /\ resp'.userId = q.authorId /\ resp'.postId = q.id
     /\ (resp'.op = "editPost" /\ resp' # resp /\ findPost(resp'.postId) # NoPost) =>
          LET q == findPost(resp'.postId)
              data == CHOOSE d \in resp'.body : TRUE
              given == data.title # undefined \/ data.content # undefined
          IN /\ (given /\ q.authorId # resp'.userId) => (resp'.status = 403 /\ post' = post)
             /\ (given /\ q.authorId = resp'.userId) =>
                   /\ resp'.status = 200
                   /\ post' = (post \ {q}) \cup
                        {[q EXCEPT !.title = IF data.title = undefined THEN @ ELSE data.title,
                                   !.content = IF data.content = undefined THEN @
                                               ELSE data.content]}]_vars

\* C18 witness: a Moderator asked to edit a premium post the creator wrote and
\* got 403; that post carries the title its author gave it in an earlier edit.
C18_Witness ==
  /\ resp.op = "editPost" /\ resp.status = 403
  /\ roleOf(reqUser, reqPost.communityId) = "MODERATOR"
  /\ reqPost # NoPost /\ reqPost.authorId # reqUser
  /\ reqPost.esPremium
  /\ reqPost.title = "title edited" /\ reqPost.content = "content"

\* C19: a comment on an existing post is created (201), and a reaction on it is
\* toggled (201 created, 200 removed), exactly when the requester holds a
\* membership of any role in the community that owns the post; a requester
\* with no membership is answered 403 and no comment or reaction is created or
\* removed.
C19_MembershipToInteract ==
  [][/\ (resp'.op = "createComment" /\ resp' # resp /\ findPost(resp'.postId) # NoPost) =>
          LET u == resp'.userId
              p == resp'.postId
          IN IF hasMembership(u, findPost(p).communityId)
             THEN /\ resp'.status = 201
                  /\ comment \subseteq comment'
                  /\ Cardinality(comment' \ comment) = 1
                  /\ \A k \in comment' \ comment : k.authorId = u /\ k.postId = p
                  /\ reaction' = reaction
             ELSE resp'.status = 403 /\ UNCHANGED <<comment, reaction>>
     /\ (resp'.op = "toggleReaction" /\ resp' # resp /\ findPost(resp'.postId) # NoPost) =>
          LET u == resp'.userId
              p == resp'.postId
              like == [userId |-> u, postId |-> p, type |-> "LIKE"]
          IN IF hasMembership(u, findPost(p).communityId)
             THEN /\ comment' = comment
                  /\ IF BagIn(like, reaction)
                     THEN resp'.status = 200 /\ reaction' = reaction (-) SetToBag({like})
                     ELSE resp'.status = 201 /\ reaction' = reaction (+) SetToBag({like})
             ELSE resp'.status = 403 /\ UNCHANGED <<comment, reaction>>]_vars

\* C19 witness: an account with no membership asked to react to a post and got
\* 403, on a post that carries a comment and a reaction of the creator.
C19_Witness ==
  /\ resp.op = "toggleReaction" /\ resp.status = 403
  /\ reqPost # NoPost
  /\ ~hasMembership(reqUser, reqPost.communityId)
  /\ \E k \in comment :
       k.postId = reqPost.id /\ roleOf(k.authorId, reqPost.communityId) = "CREATOR"
  /\ \E r \in BagToSet(reaction) :
       r.postId = reqPost.id /\ roleOf(r.userId, reqPost.communityId) = "CREATOR"

C21_CreatorOnly ==
  [][/\ \A c \in CommunityIds :
          ((communityExists(c) /\ community'[c] # NoCommunity)
             => community'[c].createdById = community[c].createdById)
      /\ (/\ resp' # resp
          /\ resp'.op \in {"updateCommunity", "updateCommunityLogo", "deleteCommunity"}
          /\ deleteReq.pc = "idle"
          /\ communityExists(resp'.communityId)
          /\ ~isCreatorOf(resp'.userId, resp'.communityId))
         => (resp'.status = 403 /\ UNCHANGED <<db, cloudinary, deleteReq>>)
      /\ (deleteReq'.pc # "idle"
           => isCreatorOf(deleteReq'.userId, deleteReq'.communityId))]_vars

\* C21 witness: a member who did not create the community was refused the
\* update of its profile, and the community carries a logo.
C21_Witness ==
  /\ resp.op = "updateCommunity"
  /\ resp.status = 403
  /\ hasMembership(reqUser, reqCommunity)
  /\ ~isCreatorOf(reqUser, reqCommunity)
  /\ community[reqCommunity].logoPublicId # 0

\* C22: the deletion of a community is all-or-nothing: a step of the deletion
\* that removes posts, comments, reactions or memberships of the community
\* removes the community record in the same step, so that no state has the
\* record with part of its content already deleted by the operation.
C22_DeletionAllOrNothing ==
  [][(/\ deleteReq.pc # "idle"
      /\ deleteReq' # deleteReq
      /\ <<post, comment, reaction, communityMembership>>' #
           <<post, comment, reaction, communityMembership>>)
     => community'[deleteReq.communityId] = NoCommunity]_vars

\* C23: subscribing joins: an account whose subscribe request on an existing
\* community was answered with success holds a membership of that community.
C23_SubscribeJoins ==
  (/\ resp.op = "subscribe"
   /\ resp.status = 200
   /\ communityExists(reqCommunity))
  => hasMembership(reqUser, reqCommunity)

\* How many times community c is in the unlock array of account u.
countIn(ids, c) == Cardinality({i \in DOMAIN ids : ids[i] = c})
unlockCount(u, c) == countIn(suscritoAComunidadesIds[u], c)

\* C24: the unlock array of an account holds each community at most once,
\* whatever the interleaving of the subscribe requests.
C24_UnlockOnce ==
  \A u \in Users, c \in SubscribableIds : unlockCount(u, c) <= 1

C26_OneReactionPerPair ==
  \A u \in Users, p \in PostIds :
    LET like == [userId |-> u, postId |-> p, type |-> "LIKE"]
    IN CopiesIn(like, reaction) <= 1

\* C26 witness: two toggles of the same account on the same post both found no
\* reaction; the create of one went through and the create of the other was
\* rejected with 409, the pair keeping its one record.
C26_Witness ==
  /\ resp.op = "toggleReaction" /\ resp.status = 409
  /\ CopiesIn([userId |-> reqUser, postId |-> resp.postId, type |-> "LIKE"], reaction) = 1

\* C27: the listing of a private community asked by an account with no
\* membership in it is answered 403 with no post data, whatever the premium
\* flags of the posts, the kind of the account and its premium unlocks.
C27_PrivateListingGate ==
  (/\ listingAnswered
   /\ communityExists(reqCommunity)
   /\ ~community[reqCommunity].esPublica
   /\ ~hasMembership(reqUser, reqCommunity))
  => (resp.status = 403 /\ resp.body = {})

\* C27 witness: an account that holds the unlock of a private community but no
\* membership in it asked for the listing and was denied, the community having
\* a premium and a non-premium post.
C27_Witness ==
  /\ listingAnswered
  /\ resp.status = 403
  /\ communityExists(reqCommunity)
  /\ ~community[reqCommunity].esPublica
  /\ ~hasMembership(reqUser, reqCommunity)
  /\ isSubscribedTo(reqUser, reqCommunity)
  /\ \E q \in communityPosts(reqCommunity) : q.esPremium
  /\ \E q \in communityPosts(reqCommunity) : ~q.esPremium

\* The answers that deny a request: bad request, forbidden, not found, conflict.
isDenial(status) == status \in {400, 403, 404, 409}

\* C28: a request answered with a denial leaves the collections as they were
\* before it: the step that sends the denial changes no collection, and a
\* post deletion that ends with a denial has deleted no comment on its way.
C28_DenialChangesNothing ==
  [][/\ (resp' # resp /\ isDenial(resp'.status)) => UNCHANGED db
     /\ \A s \in Slots :
          (/\ deletePostReq[s].pc # "idle"
           /\ deletePostReq'[s].pc = "idle"
           /\ isDenial(resp'.status))
          => deletePostReq[s].count = 0]_vars

\* C29: a post deletion requested by an account that is not the author deletes
\* the post, or its comments, only in a state where the requester's role in
\* the community is Creator or Moderator.
C29_DeleteUnderCurrentRole ==
  [][\A s \in Slots :
       LET r == deletePostReq[s]
       IN (/\ r.pc \in {"comments", "post"}
           /\ deletePostReq'[s] # r
           /\ r.userId # r.authorId
           /\ <<post, comment>>' # <<post, comment>>)
          => roleOf(r.userId, r.communityId) \in {"CREATOR", "MODERATOR"}]_vars

\* C30: the deletion of a post removes the image from Cloudinary only once the
\* post record is deleted.
C30_MediaAfterCommit ==
  [][\A s \in Slots :
       LET r == deletePostReq[s]
       IN (/\ r.pc = "cloudinary"
           /\ deletePostReq'[s] # r
           /\ cloudinary' # cloudinary)
          => findPost(r.postId) = NoPost]_vars

\* C31: the deletion of a post cascades: every comment and every reaction
\* refers to a post that exists, in every state.
C31_NoOrphans ==
  /\ \A k \in comment : findPost(k.postId) # NoPost
  /\ \A r \in BagToSet(reaction) : findPost(r.postId) # NoPost

\* C35: the unlock updates of one account to different communities do not
\* interfere: an unsubscription that completes with success leaves the count
\* of every other community in the account's array as it was, and so does a
\* subscription that completes with success.
C35_UnlocksDoNotInterfere ==
  [][\A s \in Slots :
       LET r == subscribeReq[s]
       IN (/\ r.pc \in {"set", "push"}
           /\ subscribeReq'[s].pc = "idle"
           /\ resp'.status = 200)
          => \A d \in SubscribableIds \ {r.communityId} :
               countIn(suscritoAComunidadesIds'[r.userId], d) =
                 countIn(suscritoAComunidadesIds[r.userId], d)]_vars

\* C36: every id in the unlock array of an account is the id of a community
\* that exists.
C36_UnlocksExist ==
  \A u \in Users : \A i \in DOMAIN suscritoAComunidadesIds[u] :
    communityExists(suscritoAComunidadesIds[u][i])

\* The one step a subscribe or unsubscribe request in flight takes ends it
\* with its own answer, success or failure.
oneAnswer ==
  [][\A s \in Slots :
          LET r == subscribeReq[s]
          IN (r.pc # "idle" /\ subscribeReq'[s] # r)
             => /\ subscribeReq'[s] = IdleSubscribe
                /\ resp'.op = (IF r.pc = "push" THEN "subscribe" ELSE "unsubscribe")
                /\ resp'.userId = r.userId
                /\ resp'.communityId = r.communityId
                /\ resp'.status \in {200, 500}]_vars

C33_FlagOnlyOnModerators ==
  \A m \in BagToSet(communityMembership) :
    m.canPublishPremiumContent => m.role = "MODERATOR"

\* The read operations whose answer carries post contents.
contentReads == {"getPost", "listPosts", "getFeed", "getUserPosts"}

\* C34: no read operation (detail, community listing, feed, a user's post
\* list, search) returns the real content of a premium post to a requester
\* who is neither its author, the creator of its community, a Moderator of
\* that community nor subscribed to it, at the time of the request.
C34_NoPremiumLeak ==
  [][(resp' # resp /\ resp'.op \in contentReads) =>
       \A q \in resp'.body :
         (q.esPremium /\ q.content # Placeholder)
            => hasPremiumAccess(resp'.userId, q)]_vars

====
